---- MODULE Spec2Model ----
(***************************************************************************)
(* A model of the Toolman/Bellman runtime: the agent loop (package agent,  *)
(* Run and RunWithToolsOnly with sequential and parallel tool dispatch)    *)
(* and the code_execution executor of the PTC adapter (package ptc): its   *)
(* guardrails, the session mutex, the interrupt timer and the response     *)
(* strings it returns.                                                     *)
(*                                                                         *)
(* Strings are sequences of one-character strings, so that                 *)
(* strings.Contains, fmt.Sprintf("%q"), and JSON validity are computed on  *)
(* the characters.                                                         *)
(***************************************************************************)
EXTENDS Integers, Sequences, FiniteSets, TLC

VARIABLES
  \* ---- the code_execution executor and its runtime session ----
  mutex,        \* runtime.Mutex: "free" or the call holding it
  interrupted,  \* runtime.JS interrupt flag, raised by Interrupt
  epc,          \* position of each executor call
  script,       \* the script each call was invoked with
  timer,        \* each call's time.AfterFunc timer
  elapsed,      \* seconds since each call's RunString began
  ret,          \* what each call returned: (resString, err)
  ended,        \* how each call's RunString ended (history)
  \* ---- the agent loop ----
  entry,        \* "Run" or "RunWithToolsOnly"
  maxDepth,     \* argument maxDepth
  parallelism,  \* argument parallelism
  resultIsString, \* whether the result type T is string
  pc,           \* position of the agent loop
  depth,        \* loop variable i
  prompts,      \* local variable prompts (the conversation)
  callbacks,    \* tool calls of the response being dispatched
  results,      \* the results slice of executeCallbacks*
  worker,       \* state of the goroutine of each callback
  semaphore,    \* number of tokens held in the semaphore channel
  outcome,      \* what the entry point returned
  hist,         \* history: provider prompts issued, calls emitted, functions invoked
  \* ---- the generators ----
  gens,         \* the generators made so far: gens[b] is *Generator b
  sessions,     \* the runtime sessions made so far: sessions[r] is *ptc.Runtime r
  made,         \* history: the builder call that returned each generator
  \* ---- the proxy provider ----
  sent,         \* request.Tools as sent: the names of the tools
  lines,        \* the lines of res.Body not read yet
  cancelled,    \* whether ctx.Done() is closed
  spc,          \* position of Stream's goroutine
  stream,       \* the events in the channel stream
  closed,       \* whether the channel is closed
  delivered,    \* history: the events the consumer received
  decoded,      \* response.Tools of the last Prompt, as returned
  \* ---- scripts run one after the other ----
  ran,          \* history: the calls of code_execution executors and how they went
  \* ---- the prompter the generators share ----
  prompting     \* the prompter's request, the Prompt calls under way, the requests issued

execVars == <<mutex, interrupted, epc, script, timer, elapsed, ret, ended>>
agentVars == <<entry, maxDepth, parallelism, resultIsString, pc, depth, prompts, callbacks, results,
               worker, semaphore, outcome, hist>>
genVars == <<gens, sessions, made>>
proxyVars == <<sent, lines, cancelled, spc, stream, closed, delivered, decoded>>
scriptVars == <<ran>>
promptVars == <<prompting>>
vars == <<execVars, agentVars, genVars, proxyVars, scriptVars, promptVars>>

\* what the executor, the agent loop, the builders and the provider each leave alone
outsideExec == <<agentVars, genVars, proxyVars, scriptVars, promptVars>>
outsideAgent == <<execVars, genVars, proxyVars, scriptVars, promptVars>>
outsideGen == <<execVars, agentVars, proxyVars, scriptVars, promptVars>>
outsideProxy == <<execVars, agentVars, genVars, scriptVars, promptVars>>
outsideScript == <<execVars, agentVars, sent, lines, spc, stream, closed, delivered, decoded, promptVars>>
outsidePrompt == <<execVars, agentVars, proxyVars, scriptVars>>

(***************************************************************************)
(* Strings                                                                 *)
(***************************************************************************)

\* strings.Contains(s, substr)
Contains(s, substr) ==
  \E i \in 1..(Len(s) - Len(substr) + 1) : SubSeq(s, i, i + Len(substr) - 1) = substr

\* strings.HasPrefix(s, prefix) and strings.HasSuffix(s, suffix)
HasPrefix(s, prefix) == Len(s) >= Len(prefix) /\ SubSeq(s, 1, Len(prefix)) = prefix
HasSuffix(s, suffix) ==
  Len(s) >= Len(suffix) /\ SubSeq(s, Len(s) - Len(suffix) + 1, Len(s)) = suffix

\* strconv.Quote, the %q verb of fmt.Sprintf, on printable ASCII, '"', '\' and the
\* control characters newline and tab
QuoteChar(c) ==
  CASE c = "\"" -> <<"\\", "\"">>
    [] c = "\\" -> <<"\\", "\\">>
    [] c = "\n" -> <<"\\", "n">>
    [] c = "\t" -> <<"\\", "t">>
    [] OTHER -> <<c>>

RECURSIVE QuoteBody(_)
QuoteBody(s) ==
  IF s = << >> THEN << >>
  ELSE IF Len(s) = 1 THEN QuoteChar(s[1])
  ELSE QuoteBody(SubSeq(s, 1, Len(s) \div 2)) \o QuoteBody(SubSeq(s, Len(s) \div 2 + 1, Len(s)))

Quote(s) == <<"\"">> \o QuoteBody(s) \o <<"\"">>

(***************************************************************************)
(* JSON validity (encoding/json): the grammar of RFC 8259 on the           *)
(* characters. Every scanner returns the index after what it read, or 0.   *)
(***************************************************************************)

IsDigit(c) == c \in {"0", "1", "2", "3", "4", "5", "6", "7", "8", "9"}
IsHex(c) == IsDigit(c) \/ c \in {"a", "b", "c", "d", "e", "f", "A", "B", "C", "D", "E", "F"}
IsSpace(c) == c \in {" ", "\n", "\t", "\r"}
IsControl(c) == c \in {"\n", "\t", "\r"}

RECURSIVE SkipSpace(_, _)
SkipSpace(s, i) == IF i <= Len(s) /\ IsSpace(s[i]) THEN SkipSpace(s, i + 1) ELSE i

\* The number of backslashes that run up to position j, counted from i on
Backslashes(s, i, j) ==
  Cardinality({k \in i..(j - 1) : \A m \in k..(j - 1) : s[m] = "\\"})

\* The character at j is not the second character of an escape
Unescaped(s, i, j) == Backslashes(s, i, j) % 2 = 0

\* The closing quotes of the string literal whose first character is at i
ClosingQuotes(s, i) == {j \in i..Len(s) : s[j] = "\"" /\ Unescaped(s, i, j)}

\* i is the index after the opening quote
ScanString(s, i) ==
  IF ClosingQuotes(s, i) = {} THEN 0
  ELSE LET close == CHOOSE j \in ClosingQuotes(s, i) : \A k \in ClosingQuotes(s, i) : j <= k
       IN IF \A j \in i..(close - 1) :
               /\ ~IsControl(s[j])
               /\ (s[j] = "\\" /\ Unescaped(s, i, j)) =>
                     \/ s[j + 1] \in {"\"", "\\", "/", "b", "f", "n", "r", "t"}
                     \/ s[j + 1] = "u" /\ j + 5 < close /\ \A k \in 2..5 : IsHex(s[j + k])
          THEN close + 1
          ELSE 0

RECURSIVE ScanDigits(_, _)
ScanDigits(s, i) == IF i <= Len(s) /\ IsDigit(s[i]) THEN ScanDigits(s, i + 1) ELSE i

\* -? digits ( . digits )?
ScanNumber(s, i) ==
  LET a == IF i <= Len(s) /\ s[i] = "-" THEN i + 1 ELSE i
      b == ScanDigits(s, a)
  IN IF b = a THEN 0
     ELSE IF b = a + 1 \/ s[a] # "0" THEN
       IF b <= Len(s) /\ s[b] = "." THEN
         LET c == ScanDigits(s, b + 1) IN IF c = b + 1 THEN 0 ELSE c
       ELSE b
     ELSE 0

ScanLiteral(s, i, lit) ==
  IF i + Len(lit) - 1 <= Len(s) /\ SubSeq(s, i, i + Len(lit) - 1) = lit
  THEN i + Len(lit) ELSE 0

RECURSIVE ScanValue(_, _), ScanMembers(_, _), ScanElements(_, _)
ScanValue(s, i) ==
  LET j == SkipSpace(s, i) IN
  IF j > Len(s) THEN 0
  ELSE IF s[j] = "{" THEN
    LET k == SkipSpace(s, j + 1) IN
    IF k <= Len(s) /\ s[k] = "}" THEN k + 1 ELSE ScanMembers(s, k)
  ELSE IF s[j] = "[" THEN
    LET k == SkipSpace(s, j + 1) IN
    IF k <= Len(s) /\ s[k] = "]" THEN k + 1 ELSE ScanElements(s, k)
  ELSE IF s[j] = "\"" THEN ScanString(s, j + 1)
  ELSE IF s[j] = "-" \/ IsDigit(s[j]) THEN ScanNumber(s, j)
  ELSE IF s[j] = "t" THEN ScanLiteral(s, j, <<"t", "r", "u", "e">>)
  ELSE IF s[j] = "f" THEN ScanLiteral(s, j, <<"f", "a", "l", "s", "e">>)
  ELSE IF s[j] = "n" THEN ScanLiteral(s, j, <<"n", "u", "l", "l">>)
  ELSE 0

\* "key" : value ( , "key" : value )* }
ScanMembers(s, i) ==
  IF i > Len(s) \/ s[i] # "\"" THEN 0
  ELSE
    LET k == ScanString(s, i + 1)
        c == IF k = 0 THEN 0 ELSE SkipSpace(s, k)
    IN IF k = 0 \/ c > Len(s) \/ s[c] # ":" THEN 0
       ELSE
         LET v == ScanValue(s, c + 1)
             e == IF v = 0 THEN 0 ELSE SkipSpace(s, v)
         IN IF v = 0 \/ e > Len(s) THEN 0
            ELSE IF s[e] = "}" THEN e + 1
            ELSE IF s[e] = "," THEN ScanMembers(s, SkipSpace(s, e + 1))
            ELSE 0

\* value ( , value )* ]
ScanElements(s, i) ==
  LET v == ScanValue(s, i)
      e == IF v = 0 THEN 0 ELSE SkipSpace(s, v)
  IN IF v = 0 \/ e > Len(s) THEN 0
     ELSE IF s[e] = "]" THEN e + 1
     ELSE IF s[e] = "," THEN ScanElements(s, e + 1)
     ELSE 0

\* json.Valid(s), what json.Unmarshal into interface{} accepts
IsValidJSON(s) ==
  LET j == ScanValue(s, 1) IN j # 0 /\ SkipSpace(s, j) = Len(s) + 1

\* The character an escape or a plain character at j stands for
Unescape(s, j) ==
  IF s[j] # "\\" THEN s[j]
  ELSE CASE s[j + 1] = "n" -> "\n"
         [] s[j + 1] = "t" -> "\t"
         [] s[j + 1] = "r" -> "\r"
         [] OTHER -> s[j + 1]

\* The decoded text of the JSON string literal whose opening quote is at i - 1
UnquoteJSON(s, i) ==
  LET close == ScanString(s, i) - 1
      starts == {j \in i..(close - 1) : Unescaped(s, i, j)}
  IN [n \in 1..Cardinality(starts) |->
        Unescape(s, CHOOSE j \in starts : Cardinality({k \in starts : k < j}) = n - 1)]
(***************************************************************************)
(* Texts: the literals of the program, the scripts the model may submit,   *)
(* and the messages the interpreter and the tools give                     *)
(***************************************************************************)

\* RuntimeError: No code script provided. Rewrite the code immediately.
EmptyCodeMsg ==
  <<
    "R", "u", "n", "t", "i", "m", "e", "E", "r", "r", "o", "r", ":", " ", "N", "o", " ", "c",
    "o", "d", "e", " ", "s", "c", "r", "i", "p", "t", " ", "p", "r", "o", "v", "i", "d", "e",
    "d", ".", " ", "R", "e", "w", "r", "i", "t", "e", " ", "t", "h", "e", " ", "c", "o", "d",
    "e", " ", "i", "m", "m", "e", "d", "i", "a", "t", "e", "l", "y", "."
  >>

\* RuntimeError: Log functions (e.g., 'console.log' or 'print') are strictly FORBIDDEN in this environment. You must use return data via the function return only. Rewrite the code immediately.
LogMsg ==
  <<
    "R", "u", "n", "t", "i", "m", "e", "E", "r", "r", "o", "r", ":", " ", "L", "o", "g", " ",
    "f", "u", "n", "c", "t", "i", "o", "n", "s", " ", "(", "e", ".", "g", ".", ",", " ", "'",
    "c", "o", "n", "s", "o", "l", "e", ".", "l", "o", "g", "'", " ", "o", "r", " ", "'", "p",
    "r", "i", "n", "t", "'", ")", " ", "a", "r", "e", " ", "s", "t", "r", "i", "c", "t", "l",
    "y", " ", "F", "O", "R", "B", "I", "D", "D", "E", "N", " ", "i", "n", " ", "t", "h", "i",
    "s", " ", "e", "n", "v", "i", "r", "o", "n", "m", "e", "n", "t", ".", " ", "Y", "o", "u",
    " ", "m", "u", "s", "t", " ", "u", "s", "e", " ", "r", "e", "t", "u", "r", "n", " ", "d",
    "a", "t", "a", " ", "v", "i", "a", " ", "t", "h", "e", " ", "f", "u", "n", "c", "t", "i",
    "o", "n", " ", "r", "e", "t", "u", "r", "n", " ", "o", "n", "l", "y", ".", " ", "R", "e",
    "w", "r", "i", "t", "e", " ", "t", "h", "e", " ", "c", "o", "d", "e", " ", "i", "m", "m",
    "e", "d", "i", "a", "t", "e", "l", "y", "."
  >>

\* RuntimeError: Async functions are strictly FORBIDDEN in this environment. You must use synchronous, blocking calls (e.g., 'const x = tool()', NOT 'await tool()'). Rewrite the code immediately.
AsyncMsg ==
  <<
    "R", "u", "n", "t", "i", "m", "e", "E", "r", "r", "o", "r", ":", " ", "A", "s", "y", "n",
    "c", " ", "f", "u", "n", "c", "t", "i", "o", "n", "s", " ", "a", "r", "e", " ", "s", "t",
    "r", "i", "c", "t", "l", "y", " ", "F", "O", "R", "B", "I", "D", "D", "E", "N", " ", "i",
    "n", " ", "t", "h", "i", "s", " ", "e", "n", "v", "i", "r", "o", "n", "m", "e", "n", "t",
    ".", " ", "Y", "o", "u", " ", "m", "u", "s", "t", " ", "u", "s", "e", " ", "s", "y", "n",
    "c", "h", "r", "o", "n", "o", "u", "s", ",", " ", "b", "l", "o", "c", "k", "i", "n", "g",
    " ", "c", "a", "l", "l", "s", " ", "(", "e", ".", "g", ".", ",", " ", "'", "c", "o", "n",
    "s", "t", " ", "x", " ", "=", " ", "t", "o", "o", "l", "(", ")", "'", ",", " ", "N", "O",
    "T", " ", "'", "a", "w", "a", "i", "t", " ", "t", "o", "o", "l", "(", ")", "'", ")", ".",
    " ", "R", "e", "w", "r", "i", "t", "e", " ", "t", "h", "e", " ", "c", "o", "d", "e", " ",
    "i", "m", "m", "e", "d", "i", "a", "t", "e", "l", "y", "."
  >>

\* error: 
ErrorfPrefix ==
  <<
    "e", "r", "r", "o", "r", ":", " "
  >>

\* timeout: script execution took too long (possible infinite loop)
TimeoutMsg ==
  <<
    "t", "i", "m", "e", "o", "u", "t", ":", " ", "s", "c", "r", "i", "p", "t", " ", "e", "x",
    "e", "c", "u", "t", "i", "o", "n", " ", "t", "o", "o", "k", " ", "t", "o", "o", " ", "l",
    "o", "n", "g", " ", "(", "p", "o", "s", "s", "i", "b", "l", "e", " ", "i", "n", "f", "i",
    "n", "i", "t", "e", " ", "l", "o", "o", "p", ")"
  >>

\* {"error": 
ErrObjOpen ==
  <<
    "{", "\"", "e", "r", "r", "o", "r", "\"", ":", " "
  >>

\* }
ErrObjClose ==
  <<
    "}"
  >>

\* {"error": "critical JS panic: 
PanicOpen ==
  <<
    "{", "\"", "e", "r", "r", "o", "r", "\"", ":", " ", "\"", "c", "r", "i", "t", "i", "c", "a",
    "l", " ", "J", "S", " ", "p", "a", "n", "i", "c", ":", " "
  >>

\* "}
PanicClose ==
  <<
    "\"", "}"
  >>

\* null
NullText ==
  <<
    "n", "u", "l", "l"
  >>

\* print( 
PatPrint ==
  <<
    "p", "r", "i", "n", "t", "(", " "
  >>

\* console.log(
PatConsoleLog ==
  <<
    "c", "o", "n", "s", "o", "l", "e", ".", "l", "o", "g", "("
  >>

\* async 
PatAsyncSp ==
  <<
    "a", "s", "y", "n", "c", " "
  >>

\* await
PatAwait ==
  <<
    "a", "w", "a", "i", "t"
  >>

\* async(
PatAsyncParen ==
  <<
    "a", "s", "y", "n", "c", "("
  >>

\* ''
CodeEmpty == << >>

\* 1+1
CodeSum ==
  <<
    "1", "+", "1"
  >>

\* ({a:1})
CodeObj ==
  <<
    "(", "{", "a", ":", "1", "}", ")"
  >>

\* var x=1
CodeVar ==
  <<
    "v", "a", "r", " ", "x", "=", "1"
  >>

\* 1/0
CodeDiv ==
  <<
    "1", "/", "0"
  >>

\* while(true){}
CodeLoop ==
  <<
    "w", "h", "i", "l", "e", "(", "t", "r", "u", "e", ")", "{", "}"
  >>

\* throw "a\"b"
CodeThrow ==
  <<
    "t", "h", "r", "o", "w", " ", "\"", "a", "\\", "\"", "b", "\""
  >>

\* y.z
CodeRef ==
  <<
    "y", ".", "z"
  >>

\* await f()
CodeAwait ==
  <<
    "a", "w", "a", "i", "t", " ", "f", "(", ")"
  >>

\* async function g(){}
CodeAsyncFn ==
  <<
    "a", "s", "y", "n", "c", " ", "f", "u", "n", "c", "t", "i", "o", "n", " ", "g", "(", ")",
    "{", "}"
  >>

\* async(x)=>x
CodeAsyncArrow ==
  <<
    "a", "s", "y", "n", "c", "(", "x", ")", "=", ">", "x"
  >>

\* console.log(1)
CodeLog ==
  <<
    "c", "o", "n", "s", "o", "l", "e", ".", "l", "o", "g", "(", "1", ")"
  >>

\* print( 1)
CodePrintSp ==
  <<
    "p", "r", "i", "n", "t", "(", " ", "1", ")"
  >>

\* print(1)
CodePrint ==
  <<
    "p", "r", "i", "n", "t", "(", "1", ")"
  >>

\* boom({})
CodeTool ==
  <<
    "b", "o", "o", "m", "(", "{", "}", ")"
  >>

\* ReferenceError: y is not defined at <eval>:1:1(0)
MsgRef ==
  <<
    "R", "e", "f", "e", "r", "e", "n", "c", "e", "E", "r", "r", "o", "r", ":", " ", "y", " ",
    "i", "s", " ", "n", "o", "t", " ", "d", "e", "f", "i", "n", "e", "d", " ", "a", "t", " ",
    "<", "e", "v", "a", "l", ">", ":", "1", ":", "1", "(", "0", ")"
  >>

\* unexpected "x"
MsgPanicQuote ==
  <<
    "u", "n", "e", "x", "p", "e", "c", "t", "e", "d", " ", "\"", "x", "\""
  >>

\* unexpected end of JSON input
UnmarshalMsg ==
  <<
    "u", "n", "e", "x", "p", "e", "c", "t", "e", "d", " ", "e", "n", "d", " ", "o", "f", " ",
    "J", "S", "O", "N", " ", "i", "n", "p", "u", "t"
  >>

\* json: unsupported value: +Inf
UnsupportedMsg ==
  <<
    "j", "s", "o", "n", ":", " ", "u", "n", "s", "u", "p", "p", "o", "r", "t", "e", "d", " ",
    "v", "a", "l", "u", "e", ":", " ", "+", "I", "n", "f"
  >>

\* a"b at <eval>:1:7(1)
MsgThrowAt ==
  <<
    "a", "\"", "b", " ", "a", "t", " ", "<", "e", "v", "a", "l", ">", ":", "1", ":", "7", "(",
    "1", ")"
  >>

\* upstream unavailable
ToolFailedMsg ==
  <<
    "u", "p", "s", "t", "r", "e", "a", "m", " ", "u", "n", "a", "v", "a", "i", "l", "a", "b",
    "l", "e"
  >>

\* a
KeyA ==
  <<
    "a"
  >>

\* {"result": 6969696969}
TextA ==
  <<
    "{", "\"", "r", "e", "s", "u", "l", "t", "\"", ":", " ", "6", "9", "6", "9", "6", "9", "6",
    "9", "6", "9", "}"
  >>

\* sunny
TextB ==
  <<
    "s", "u", "n", "n", "y"
  >>

\* dist?
QuestionText ==
  <<
    "d", "i", "s", "t", "?"
  >>

\* error
ErrorKey ==
  <<
    "e", "r", "r", "o", "r"
  >>

\* fetch_report({})
CodeSlow ==
  <<
    "f", "e", "t", "c", "h", "_", "r", "e", "p", "o", "r", "t", "(", "{", "}", ")"
  >>

\* var returned=2
CodeReturned ==
  <<
    "v", "a", "r", " ", "r", "e", "t", "u", "r", "n", "e", "d", "=", "2"
  >>

\* x
CodeReadX ==
  <<
    "x"
  >>

\* returned
CodeReadReturned ==
  <<
    "r", "e", "t", "u", "r", "n", "e", "d"
  >>

\* add()
CodeCallNone ==
  <<
    "a", "d", "d", "(", ")"
  >>

\* add({})
CodeCallOne ==
  <<
    "a", "d", "d", "(", "{", "}", ")"
  >>

\* add({},{})
CodeCallTwo ==
  <<
    "a", "d", "d", "(", "{", "}", ",", "{", "}", ")"
  >>

\* (function() { 
IIFEOpen ==
  <<
    "(", "f", "u", "n", "c", "t", "i", "o", "n", "(", ")", " ", "{", " "
  >>

\*  })()
IIFEClose ==
  <<
    " ", "}", ")", "(", ")"
  >>

\* return
PatReturn ==
  <<
    "r", "e", "t", "u", "r", "n"
  >>

\* (function
PatFunction ==
  <<
    "(", "f", "u", "n", "c", "t", "i", "o", "n"
  >>

\* ReferenceError: 
RefErrOpen ==
  <<
    "R", "e", "f", "e", "r", "e", "n", "c", "e", "E", "r", "r", "o", "r", ":", " "
  >>

\*  is not defined at <eval>:1:1(0)
RefErrClose ==
  <<
    " ", "i", "s", " ", "n", "o", "t", " ", "d", "e", "f", "i", "n", "e", "d", " ", "a", "t",
    " ", "<", "e", "v", "a", "l", ">", ":", "1", ":", "1", "(", "0", ")"
  >>

\* Error: 
TooManyOpen ==
  <<
    "E", "r", "r", "o", "r", ":", " "
  >>

\*  expects a single configuration object argument, but received 
TooManyExpects ==
  <<
    " ", "e", "x", "p", "e", "c", "t", "s", " ", "a", " ", "s", "i", "n", "g", "l", "e", " ",
    "c", "o", "n", "f", "i", "g", "u", "r", "a", "t", "i", "o", "n", " ", "o", "b", "j", "e",
    "c", "t", " ", "a", "r", "g", "u", "m", "e", "n", "t", ",", " ", "b", "u", "t", " ", "r",
    "e", "c", "e", "i", "v", "e", "d", " "
  >>

\*  arguments. Usage: 
TooManyUsage ==
  <<
    " ", "a", "r", "g", "u", "m", "e", "n", "t", "s", ".", " ", "U", "s", "a", "g", "e", ":",
    " "
  >>

\* ({ key: val })
TooManyClose ==
  <<
    "(", "{", " ", "k", "e", "y", ":", " ", "v", "a", "l", " ", "}", ")"
  >>

\* tool 
RequiresOpen ==
  <<
    "t", "o", "o", "l", " "
  >>

\*  requires arguments
RequiresClose ==
  <<
    " ", "r", "e", "q", "u", "i", "r", "e", "s", " ", "a", "r", "g", "u", "m", "e", "n", "t",
    "s"
  >>

\* {"error":
MapErrorOpen ==
  <<
    "{", "\"", "e", "r", "r", "o", "r", "\"", ":"
  >>

\* ,"ok":false}
MapOkFalse ==
  <<
    ",", "\"", "o", "k", "\"", ":", "f", "a", "l", "s", "e", "}"
  >>

\* {"value":{}}
GoErrorText ==
  <<
    "{", "\"", "v", "a", "l", "u", "e", "\"", ":", "{", "}", "}"
  >>

\* add
SpellAdd ==
  <<
    "a", "d", "d"
  >>

\* returned
SpellReturned ==
  <<
    "r", "e", "t", "u", "r", "n", "e", "d"
  >>

\* 2
SumText ==
  <<
    "2"
  >>

\* run_script({})
CodeNested ==
  <<
    "r", "u", "n", "_", "s", "c", "r", "i", "p", "t", "(", "{", "}", ")"
  >>

(***************************************************************************)
(* Go values of the model                                                  *)
(***************************************************************************)

\* error values: nil, or an error whose Error() is msg
NoErr == [nil |-> TRUE, msg |-> << >>]
Err(msg) == [nil |-> FALSE, msg |-> msg]

\* fmt.Errorf("error: %s", errMsg)
Errorf(errMsg) == Err(ErrorfPrefix \o errMsg)

\* Script values, as res.Export() hands them to json.Marshal
Undefined == [t |-> "undefined", n |-> 0, s |-> << >>]
Num(n) == [t |-> "number", n |-> n, s |-> << >>]
Obj(key, n) == [t |-> "object", n |-> n, s |-> key]
Inf == [t |-> "inf", n |-> 0, s |-> << >>]

\* What a wrapper of a bound tool returns besides the values above:
\* vm.ToValue(map[string]string{"error": msg}), vm.NewGoError(err), an Error
\* object with the message of err and a property value that holds err, and
\* vm.ToValue(map[string]any{"ok": false, "error": msg})
ErrorObject(msg) == [t |-> "error_object", n |-> 0, s |-> msg]
GoError(msg) == [t |-> "go_error", n |-> 0, s |-> msg]
Failed(msg) == [t |-> "failed", n |-> 0, s |-> msg]

DigitChars == <<"0", "1", "2", "3", "4", "5", "6", "7", "8", "9">>

RECURSIVE Itoa(_)
Itoa(n) == IF n < 10 THEN <<DigitChars[n + 1]>> ELSE Itoa(n \div 10) \o <<DigitChars[(n % 10) + 1]>>

\* json.Marshal(v): the encoding and the error
Marshal(v) ==
  CASE v.t = "number" -> [bytes |-> Itoa(v.n), err |-> NoErr]
    [] v.t = "object" ->
         [bytes |-> <<"{">> \o Quote(v.s) \o <<":">> \o Itoa(v.n) \o <<"}">>, err |-> NoErr]
    [] v.t = "undefined" -> [bytes |-> NullText, err |-> NoErr]
    [] v.t = "error_object" ->
         [bytes |-> MapErrorOpen \o Quote(v.s) \o <<"}">>, err |-> NoErr]
    [] v.t = "failed" -> [bytes |-> MapErrorOpen \o Quote(v.s) \o MapOkFalse, err |-> NoErr]
    [] v.t = "go_error" -> [bytes |-> GoErrorText, err |-> NoErr]
    [] OTHER -> [bytes |-> << >>, err |-> Err(UnsupportedMsg)]

(***************************************************************************)
(* The guardrail and the executor's return values                          *)
(***************************************************************************)

\* guardRailJS of tools/ptc/javascript.go, the guardrail of the adapter that made an
\* interpreter per adaptation: a script that holds "return" and does not begin with
\* "(function" is wrapped in a function called at once
guardRailJS(code) ==
  IF code = << >> THEN [code |-> code, err |-> Errorf(EmptyCodeMsg)]
  ELSE LET first == CHOOSE i \in 1..(Len(code) + 1) :
                      /\ \A j \in 1..(i - 1) : code[j] \in {" ", "\n", "\t", "\r"}
                      /\ i <= Len(code) => code[i] \notin {" ", "\n", "\t", "\r"}
           wrapped == IF /\ Contains(code, PatReturn)
                         /\ ~HasPrefix(SubSeq(code, first, Len(code)), PatFunction)
                      THEN IIFEOpen \o code \o IIFEClose
                      ELSE code
       IN IF Contains(wrapped, PatPrint) \/ Contains(wrapped, PatConsoleLog)
            THEN [code |-> wrapped, err |-> Errorf(LogMsg)]
          ELSE IF \/ Contains(wrapped, PatAsyncSp)
                  \/ Contains(wrapped, PatAwait)
                  \/ Contains(wrapped, PatAsyncParen)
            THEN [code |-> wrapped, err |-> Errorf(AsyncMsg)]
          ELSE [code |-> wrapped, err |-> NoErr]

GuardRailJS(code) ==
  IF code = << >> THEN [code |-> code, err |-> Errorf(EmptyCodeMsg)]
  ELSE IF Contains(code, PatPrint) \/ Contains(code, PatConsoleLog)
    THEN [code |-> code, err |-> Errorf(LogMsg)]
  ELSE IF Contains(code, PatAsyncSp) \/ Contains(code, PatAwait) \/ Contains(code, PatAsyncParen)
    THEN [code |-> code, err |-> Errorf(AsyncMsg)]
  ELSE [code |-> code, err |-> NoErr]

\* A return of the executor: (resString, err)
Return(resString, err) == [res |-> resString, err |-> err]

\* return "", err: json.Unmarshal(call.Argument, &arg) failed
UnmarshalFailed == Return(<< >>, Err(UnmarshalMsg))

\* return err.Error(), nil: the guardrail refused the script
GuardRailRefused(err) == Return(err.msg, NoErr)

\* the deferred recover: resString = `{"error": "critical JS panic: %v"}`, err = nil
Recovered(r) == Return(PanicOpen \o r \o PanicClose, NoErr)

\* the message between quotes as it is, nothing escaped
RunFailedUnquoted(msg) == Return(ErrObjOpen \o <<"\"">> \o msg \o <<"\"">> \o ErrObjClose, NoErr)

\* return fmt.Sprintf(`{"error": %q}`, err.Error()), nil
RunFailed(msg) == Return(ErrObjOpen \o Quote(msg) \o ErrObjClose, NoErr)

\* the export and marshal of the last expression's value
Exported(value) ==
  IF value.t = "undefined" THEN Return(NullText, NoErr)
  ELSE LET m == Marshal(value) IN
       IF ~m.err.nil THEN Return(<< >>, m.err) ELSE Return(m.bytes, NoErr)

\* How runtime.JS.RunString(code) ended
EndValue(v) == [kind |-> "value", value |-> v, text |-> << >>]
EndError(msg) == [kind |-> "error", value |-> Undefined, text |-> msg]
EndPanic(r) == [kind |-> "panic", value |-> Undefined, text |-> r]
NotEnded == [kind |-> "none", value |-> Undefined, text |-> << >>]

\* What the executor returns once RunString has ended
ExecutorResult(end) ==
  CASE end.kind = "panic" -> Recovered(end.text)
    [] end.kind = "error" -> RunFailed(end.text)
    [] OTHER -> Exported(end.value)

\* The decoded argument of a code_execution call: json.Unmarshal into CodeArgs
\* fails on bytes that are no JSON object with a string field "code"
Argument(code) == [valid |-> TRUE, code |-> code]
BadArgument == [valid |-> FALSE, code |-> << >>]

\* The part of the executor before the timer is armed: done says it returned
ExecutorEntry(arg) ==
  IF ~arg.valid THEN [done |-> TRUE, ret |-> UnmarshalFailed]
  ELSE LET g == GuardRailJS(arg.code) IN
       IF ~g.err.nil THEN [done |-> TRUE, ret |-> GuardRailRefused(g.err)]
       ELSE [done |-> FALSE, ret |-> Return(<< >>, NoErr)]

(***************************************************************************)
(* Scripts the model may submit, each with what the interpreter does with  *)
(* it: evaluate to a value, throw, panic in a host function, loop, or stay *)
(* inside a bound tool function ("host") for as long as the tool takes.    *)
(***************************************************************************)

Script(code, kind, value, text) == [code |-> code, kind |-> kind, value |-> value, text |-> text]

Scripts ==
  { Script(CodeEmpty, "value", Undefined, << >>),
    Script(CodeSum, "value", Num(2), << >>),
    Script(CodeObj, "value", Obj(KeyA, 1), << >>),
    Script(CodeVar, "value", Undefined, << >>),
    Script(CodeDiv, "value", Inf, << >>),
    Script(CodeLoop, "loop", Undefined, << >>),
    Script(CodeThrow, "throw", Undefined, MsgThrowAt),
    Script(CodeRef, "throw", Undefined, MsgRef),
    Script(CodeTool, "panic", Undefined, MsgPanicQuote),
    Script(CodeSlow, "host", Obj(KeyA, 1), << >>),
    Script(CodeAwait, "value", Undefined, << >>),
    Script(CodeAsyncFn, "value", Undefined, << >>),
    Script(CodeAsyncArrow, "value", Undefined, << >>),
    Script(CodeLog, "value", Undefined, << >>),
    Script(CodePrintSp, "value", Undefined, << >>),
    Script(CodePrint, "value", Undefined, << >>) }

NoScript == Script(<< >>, "none", Undefined, << >>)

\* How RunString ends when the script runs to its end
RunsTo(s) ==
  CASE s.kind = "throw" -> EndError(s.text)
    [] s.kind = "panic" -> EndPanic(s.text)
    [] OTHER -> EndValue(s.value)

(***************************************************************************)
(* The code_execution executor on one runtime session. Time is kept as     *)
(* each timer's remaining seconds and each running script's elapsed        *)
(* seconds.                                                                *)
(***************************************************************************)

\* Concurrent invocations of the executor on the session
Calls == {"c1", "c2"}

\* time.AfterFunc(5*time.Second, ...)
Timeout == 5

\* elapsed is not counted beyond this
MaxElapsed == Timeout + 1

NoTimer == [state |-> "none", remaining |-> 0]
NoReturn == [res |-> << >>, err |-> NoErr, set |-> FALSE]
Returned(r) == [res |-> r.res, err |-> r.err, set |-> TRUE]

\* A script whose tool function calls a code_execution executor of the session
\* the script runs in: the executor call of the script, and the call its tool makes
Outer == "c1"
Inner == "c2"

\* runtime.Mutex.Lock() returns only when nobody holds the mutex
MutexLockAlways(m) == TRUE
MutexLockReentrant(m) == m \in {"free", Outer}
MutexLockReturns(m) == m = "free"

\* time.AfterFunc(d, f): f runs once d has elapsed
AfterFunc(d) == [state |-> "armed", remaining |-> d]

\* timer.Stop(): a timer that has fired stays fired
Stop(t) == IF t.state = "armed" THEN [state |-> "stopped", remaining |-> 0] ELSE t

\* executor: the argument does not decode; the call returns ("", err)
InvokeBadArgument(c) ==
  /\ epc[c] = "idle"
  /\ LET e == ExecutorEntry(BadArgument) IN
     /\ e.done
     /\ ret' = [ret EXCEPT ![c] = Returned(e.ret)]
  /\ epc' = [epc EXCEPT ![c] = "returned"]
  /\ UNCHANGED <<mutex, interrupted, script, timer, elapsed, ended>>

\* executor: the guardrail refuses the script; the call returns before any timer
InvokeRefused(c, s) ==
  /\ epc[c] = "idle"
  /\ LET e == ExecutorEntry(Argument(s.code)) IN
     /\ e.done
     /\ ret' = [ret EXCEPT ![c] = Returned(e.ret)]
  /\ script' = [script EXCEPT ![c] = s]
  /\ epc' = [epc EXCEPT ![c] = "returned"]
  /\ UNCHANGED <<mutex, interrupted, timer, elapsed, ended>>

\* executor: the script passes the guardrail; the recover is deferred and the
\* interrupt timer armed, and the call goes on to lock the mutex
InvokeAccepted(c, s) ==
  /\ epc[c] = "idle"
  /\ ~ExecutorEntry(Argument(s.code)).done
  /\ script' = [script EXCEPT ![c] = s]
  /\ timer' = [timer EXCEPT ![c] = AfterFunc(Timeout)]
  /\ epc' = [epc EXCEPT ![c] = "armed"]
  /\ UNCHANGED <<mutex, interrupted, elapsed, ret, ended>>

\* runtime.Mutex.Lock() returns and runtime.JS.RunString(code) begins
Lock(c) ==
  /\ epc[c] = "armed"
  /\ MutexLockReturns(mutex)
  /\ mutex' = c
  /\ elapsed' = [elapsed EXCEPT ![c] = 0]
  /\ epc' = [epc EXCEPT ![c] = "running"]
  /\ UNCHANGED <<interrupted, script, timer, ret, ended>>

\* RunString ends with `end`: the result is built, and the deferred Unlock runs
Finish(c, end) ==
  /\ ended' = [ended EXCEPT ![c] = end]
  /\ ret' = [ret EXCEPT ![c] = Returned(ExecutorResult(end))]
  /\ mutex' = "free"
  /\ epc' = [epc EXCEPT ![c] = "unlocked"]

\* the script runs to its end: a value, a thrown exception or a host panic
Complete(c) ==
  /\ epc[c] = "running"
  /\ script[c].kind # "loop"
  /\ Finish(c, RunsTo(script[c]))
  /\ UNCHANGED <<interrupted, script, timer, elapsed>>

\* the interpreter sees the interrupt flag at a safe point: RunString returns an
\* InterruptedError carrying the value given to Interrupt. Whether the interpreter
\* clears the flag then or leaves it raised is the interpreter library's, and the
\* code never calls ClearInterrupt: both are possible.
Interrupt(c) ==
  /\ epc[c] = "running"
  /\ interrupted
  /\ \E cleared \in BOOLEAN : interrupted' = ~cleared
  /\ Finish(c, EndError(TimeoutMsg))
  /\ UNCHANGED <<script, timer, elapsed>>

\* the deferred timer.Stop(), after which the call has returned
StopTimer(c) ==
  /\ epc[c] = "unlocked"
  /\ timer' = [timer EXCEPT ![c] = Stop(timer[c])]
  /\ epc' = [epc EXCEPT ![c] = "returned"]
  /\ UNCHANGED <<mutex, interrupted, script, elapsed, ret, ended>>

\* the timer's function runs: runtime.JS.Interrupt("timeout: ...")
Fire(c) ==
  /\ timer[c].state = "armed"
  /\ timer[c].remaining = 0
  /\ timer' = [timer EXCEPT ![c] = [state |-> "fired", remaining |-> 0]]
  /\ interrupted' = TRUE
  /\ UNCHANGED <<mutex, epc, script, elapsed, ret, ended>>

\* The caller takes the return value; the call may be invoked again
Again(c) ==
  /\ epc[c] = "returned"
  /\ epc' = [epc EXCEPT ![c] = "idle"]
  /\ script' = [script EXCEPT ![c] = NoScript]
  /\ timer' = [timer EXCEPT ![c] = NoTimer]
  /\ elapsed' = [elapsed EXCEPT ![c] = 0]
  /\ ret' = [ret EXCEPT ![c] = NoReturn]
  /\ ended' = [ended EXCEPT ![c] = NotEnded]
  /\ UNCHANGED <<mutex, interrupted>>

\* The interpreter of call c is inside a bound tool function: that of a slow tool,
\* or that of a tool waiting for the executor call it made
InTool(c) ==
  \/ script[c].kind = "host"
  \/ script[c].kind = "nested" /\ epc[Inner] # "returned"

\* A second passes. A due timer fires first, and an interpreter running script code
\* reaches a safe point, where it honours a raised interrupt, before the second is
\* over; inside a tool function (called with context.Background()) there is none.
Tick ==
  /\ \A c \in Calls : ~(timer[c].state = "armed" /\ timer[c].remaining = 0)
  /\ ~(interrupted /\ \E c \in Calls : epc[c] = "running" /\ ~InTool(c))
  /\ timer' = [c \in Calls |->
                 IF timer[c].state = "armed"
                 THEN [timer[c] EXCEPT !.remaining = @ - 1] ELSE timer[c]]
  /\ elapsed' = [c \in Calls |->
                   IF epc[c] = "running" /\ elapsed[c] < MaxElapsed
                   THEN elapsed[c] + 1 ELSE elapsed[c]]
  /\ UNCHANGED <<mutex, interrupted, epc, script, ret, ended>>

(***************************************************************************)
(* The agent loop: Run and RunWithToolsOnly                                *)
(***************************************************************************)

\* maxDepth ranges over 0..MaxDepthBound
MaxDepthBound == 2

\* parallelism ranges over 0..MaxParallelism
MaxParallelism == 2

customResultCalculatedTool == "__return_result_tool__"

NoId == <<0, 0>>

\* prompt entries
Prompt(role, id, name, arg, text) ==
  [role |-> role, id |-> id, name |-> name, arg |-> arg, text |-> text]
AsUser(text) == Prompt("user", NoId, "", Argument(<< >>), text)
AsToolCall(id, name, arg) == Prompt("tool_call", id, name, arg, << >>)
AsToolResponse(id, name, response) ==
  Prompt("tool_response", id, name, Argument(<< >>), response)

\* callback.Ref: the tool the call refers to, if any, and whether it has a Function
Ref(found, hasFunction) == [found |-> found, hasFunction |-> hasFunction]

\* a tools.Call of a response; the id is given when the response is emitted
Call(name, arg, ref) == [id |-> NoId, name |-> name, arg |-> arg, ref |-> ref]

CallA == Call("get_earnings", Argument(<< >>), Ref(TRUE, TRUE))
CallB == Call("get_weather", Argument(<< >>), Ref(TRUE, TRUE))
CallCode(code) == Call("code_execution", Argument(code), Ref(TRUE, TRUE))
CallUnknown == Call("get_unknown", Argument(<< >>), Ref(FALSE, FALSE))
CallNoFunction == Call("get_nothing", Argument(<< >>), Ref(TRUE, FALSE))
CallResult(decodes) ==
  Call(customResultCalculatedTool, [valid |-> decodes, code |-> << >>], Ref(TRUE, FALSE))

\* The tool-call lists a response may carry
ToolLists ==
  { <<CallA>>,
    <<CallA, CallB>>,
    <<CallB, CallA, CallB>>,
    <<CallCode(CodeAwait)>>,
    <<CallCode(CodeSum), CallA>>,
    <<CallCode(CodeEmpty)>>,
    <<CallA, CallUnknown>>,
    <<CallNoFunction, CallB>> }

\* The lists that call the result tool, which only RunWithToolsOnly installs, and
\* the empty list that resp.AsTools() may give for a response without tool calls
ResultLists ==
  { << >>,
    <<CallResult(TRUE)>>,
    <<CallA, CallResult(TRUE)>>,
    <<CallResult(FALSE)>>,
    <<CallResult(TRUE), CallUnknown>>,
    <<CallUnknown, CallResult(TRUE)>> }

\* the ids of a response's calls: unique in the conversation
WithIds(calls, turn) == [k \in 1..Len(calls) |-> [calls[k] EXCEPT !.id = <<turn, k>>]]

\* The script with the given source
ScriptOf(code) == CHOOSE s \in Scripts : s.code = code

\* RunString of a script that no other call interferes with: a script that
\* loops is interrupted by the call's own timer
RunAlone(s) == IF s.kind = "loop" THEN EndError(TimeoutMsg) ELSE RunsTo(s)

\* The executor, called while no other call uses the session
Executor(arg) ==
  LET e == ExecutorEntry(arg) IN
  IF e.done THEN e.ret ELSE ExecutorResult(RunAlone(ScriptOf(arg.code)))

\* callback.Ref.Function(ctx, callback): code_execution runs the executor;
\* get_earnings answers; get_weather answers or fails
Function(cb, fails) ==
  CASE cb.name = "code_execution" -> Executor(cb.arg)
    [] cb.name = "get_earnings" -> Return(TextA, NoErr)
    [] cb.name = "get_weather" /\ ~fails -> Return(TextB, NoErr)
    [] OTHER -> Return(<< >>, Err(ToolFailedMsg))

MayFail(cb) == IF cb.name = "get_weather" THEN BOOLEAN ELSE {FALSE}

\* callbackResult
ZeroResult == [Index |-> 0, ID |-> NoId, Name |-> "", Response |-> << >>, Error |-> NoErr]
CallbackResultNoID(index, cb, r) ==
  [Index |-> index, ID |-> NoId, Name |-> cb.name, Response |-> r.res, Error |-> r.err]
CallbackResult(index, cb, r) ==
  [Index |-> index, ID |-> cb.id, Name |-> cb.name, Response |-> r.res, Error |-> r.err]

\* results[index] = callbackResult{...}
StoreNextFree(rs, index, result) ==
  LET free == CHOOSE k \in 1..Len(rs) : rs[k] = ZeroResult /\ \A j \in 1..(k - 1) : rs[j] # ZeroResult
  IN [rs EXCEPT ![free] = result]
Store(rs, index, result) == [rs EXCEPT ![index] = result]

\* for i := 0; i < maxDepth; i++
LoopContinuesOneMore(i, max) == i <= max
LoopContinuesDoWhile(i, max) == i = 0 \/ i < max
LoopContinues(i, max) == i < max

\* Run's pre-validation of the callbacks: the first call with no Ref or no
\* Function ends the run
Invalid(cb) == ~cb.ref.found \/ ~cb.ref.hasFunction
InvalidError(cb) == IF ~cb.ref.found THEN "not found in local setup" ELSE "no callback function attached"

PreValidateFirstOnly(cbs) ==
  IF Invalid(cbs[1]) THEN [ok |-> FALSE, err |-> InvalidError(cbs[1])]
  ELSE [ok |-> TRUE, err |-> ""]
PreValidate(cbs) ==
  IF \E k \in 1..Len(cbs) : Invalid(cbs[k])
  THEN LET k == CHOOSE j \in 1..Len(cbs) : Invalid(cbs[j]) /\ \A h \in 1..(j - 1) : ~Invalid(cbs[h])
       IN [ok |-> FALSE, err |-> InvalidError(cbs[k])]
  ELSE [ok |-> TRUE, err |-> ""]

\* RunWithToolsOnly's pre-validation: the first call that is the result tool or
\* is invalid decides
Decides(cb) == cb.name = customResultCalculatedTool \/ Invalid(cb)
PreValidateToolsOnly(cbs) ==
  IF \E k \in 1..Len(cbs) : Decides(cbs[k])
  THEN LET k == CHOOSE j \in 1..Len(cbs) : Decides(cbs[j]) /\ \A h \in 1..(j - 1) : ~Decides(cbs[h])
       IN IF cbs[k].name = customResultCalculatedTool
          THEN IF cbs[k].arg.valid THEN [kind |-> "final", err |-> ""]
               ELSE [kind |-> "error", err |-> "could not unmarshal final result"]
          ELSE [kind |-> "error", err |-> InvalidError(cbs[k])]
  ELSE [kind |-> "ok", err |-> ""]

\* The loop over callbackResults: the prompts it appends, and the index of the
\* result whose Error ended it (0: none)
RECURSIVE ProcessResults(_, _, _, _), ProcessResultsIgnoringErrors(_, _, _, _)
ProcessResultsIgnoringErrors(ps, cbs, rs, k) ==
  IF k > Len(rs) THEN [prompts |-> ps, failed |-> 0]
  ELSE LET cb == cbs[rs[k].Index] IN
       ProcessResultsIgnoringErrors(
         ps \o <<AsToolCall(cb.id, cb.name, cb.arg),
                 AsToolResponse(rs[k].ID, rs[k].Name, rs[k].Response)>>, cbs, rs, k + 1)
ProcessResults(ps, cbs, rs, k) ==
  IF k > Len(rs) THEN [prompts |-> ps, failed |-> 0]
  ELSE LET cb == cbs[rs[k].Index]
           called == Append(ps, AsToolCall(cb.id, cb.name, cb.arg))
       IN IF ~rs[k].Error.nil THEN [prompts |-> called, failed |-> k]
          ELSE ProcessResults(
                 Append(called, AsToolResponse(rs[k].ID, rs[k].Name, rs[k].Response)),
                 cbs, rs, k + 1)

(***************************************************************************)
(* The generator (package gen): the copy-on-modify builders, the PTC       *)
(* adaptation of SetTools and the runtime session. Generators and runtime  *)
(* sessions live in heaps (sequences); a *Generator or *ptc.Runtime is an  *)
(* index into its heap, 0 being nil.                                       *)
(***************************************************************************)

\* generators in the heap, at most
MaxGens == 3

\* runtime sessions in the heap, at most
MaxSessions == 2

\* goja.New() calls on one session, at most
MaxResets == 2

codeExecution == "code_execution"

\* tools.Tool: Function names the function of the tool ("nil": none), Runtime is
\* the session the executor closure of a code_execution tool captured, Docs the
\* tool names its description lists
Tool(name, usePTC, function) ==
  [Name |-> name, UsePTC |-> usePTC, Function |-> function, Runtime |-> 0, Docs |-> << >>]

\* tools.NoTool, tools.AutoTool, tools.RequiredTool
NoTool == Tool("none", FALSE, "nil")
AutoTool == Tool("auto", FALSE, "nil")
RequiredTool == Tool("required", FALSE, "nil")
ControlTools == <<NoTool, AutoTool, RequiredTool>>

\* The tools a caller supplies: names pairwise distinct, none named code_execution
Lookup == Tool("lookup", FALSE, "lookup")
Add == Tool("add", TRUE, "add")
Mul == Tool("mul", TRUE, "mul")

\* A tool of the caller with the name of Add and a function of its own
AddOther == Tool("add", TRUE, "addOther")

\* tools.Tool{Name: customResultCalculatedTool, Description: ..., ArgumentSchema: ...}
ResultTool == Tool(customResultCalculatedTool, FALSE, "nil")

NilTool == Tool("nil", FALSE, "nil")

\* gen.Request, the fields the builders of the model write
Request(ts) ==
  [Tools |-> ts, ToolConfig |-> NilTool, PTCLanguage |-> "", PTCSystemFragment |-> << >>,
   OutputSchema |-> "nil", SystemPrompt |-> "", Temperature |-> 0, StopSequences |-> << >>]

\* gen.Generator
Generator(request, runtime) == [Request |-> request, Runtime |-> runtime]

\* ptc.Runtime: JS counts the interpreters goja.New() made for the session (0: nil);
\* Bound are the names vm.Set bound in the interpreter, each with the function of
\* the tool its wrapper calls, Vars the global variables scripts declared, each with
\* its value, and Globals the generators whose scripts wrote a global variable
Session(js, bound, declared, globals) ==
  [JS |-> js, Bound |-> bound, Vars |-> declared, Globals |-> globals]

Elements(s) == {s[k] : k \in 1..Len(s)}
Names(ts) == {ts[k].Name : k \in 1..Len(ts)}
NamesOf(ts) == [k \in 1..Len(ts) |-> ts[k].Name]
Count(ts, name) == Cardinality({k \in 1..Len(ts) : ts[k].Name = name})

\* What a builder hands back: the heaps and the generator returned
Heaps(G, S, id) == [G |-> G, S |-> S, id |-> id]

\* clone: bb = *b, the pointer fields and slices of the request copied; the Runtime
\* pointer is copied as it is
CloneShared(G, b) == [G |-> G, id |-> b]
Clone(G, b) == [G |-> Append(G, G[b]), id |-> Len(G) + 1]

\* ptc.ExtractPTCTools
IsPTC(t) == t.UsePTC
IsRegular(t) == ~t.UsePTC
ExtractPTCTools(inputTools) ==
  [regular |-> SelectSeq(inputTools, IsRegular), ptc |-> SelectSeq(inputTools, IsPTC)]

\* ResetRuntimeSession: b.Runtime.JS = goja.New(), an interpreter with nothing bound
ResetRuntimeSession(G, S, b) ==
  LET r == G[b].Runtime IN
  Heaps(G, [S EXCEPT ![r] = Session(S[r].JS + 1, << >>, << >>, {})], b)

\* EnsureRuntimeSession: a Runtime if b has none, and an interpreter if it has none
EnsureRuntimeSession(G, S, b) ==
  LET S1 == IF G[b].Runtime = 0 THEN Append(S, Session(0, << >>, << >>, {})) ELSE S
      G1 == IF G[b].Runtime = 0 THEN [G EXCEPT ![b].Runtime = Len(S1)] ELSE G
  IN IF S1[G1[b].Runtime].JS = 0 THEN ResetRuntimeSession(G1, S1, b) ELSE Heaps(G1, S1, b)

\* bindToolToJSVM, vm.Set(t.Name, wrapper): the name is bound to a wrapper of t,
\* whatever it was bound to
bindToolToJSVMOnce(bound, t) ==
  [n \in DOMAIN bound \cup {t.Name} |-> IF n \in DOMAIN bound THEN bound[n] ELSE t.Function]
bindToolToJSVM(bound, t) ==
  [n \in DOMAIN bound \cup {t.Name} |-> IF n = t.Name THEN t.Function ELSE bound[n]]

\* adaptToolsToJSPTC, lines 21-29: the tools bound one after the other
RECURSIVE BindTools(_, _)
BindTools(bound, inputTools) ==
  IF inputTools = << >> THEN bound
  ELSE BindTools(bindToolToJSVM(bound, Head(inputTools)), Tail(inputTools))

\* ptc.AdaptToolsToPTC and adaptToolsToJSPTC: every tool is bound in the session's
\* interpreter and gets a signature; python, go and lua are not implemented
AdaptToolsToPTCAsJS(S, runtime, ptcTools, language) ==
  [ok |-> TRUE,
   S |-> [S EXCEPT ![runtime].Bound = BindTools(@, ptcTools)],
   tool |-> [Tool(codeExecution, FALSE, "executor") EXCEPT
               !.Runtime = runtime, !.Docs = NamesOf(ptcTools)],
   fragment |-> NamesOf(ptcTools)]
AdaptToolsToPTC(S, runtime, ptcTools, language) ==
  IF language \in {"python", "go", "lua"}
  THEN [ok |-> FALSE, S |-> S, tool |-> NilTool, fragment |-> << >>]
  ELSE [ok |-> TRUE,
        S |-> [S EXCEPT ![runtime].Bound = BindTools(@, ptcTools)],
        tool |-> [Tool(codeExecution, FALSE, "executor") EXCEPT
                    !.Runtime = runtime, !.Docs = NamesOf(ptcTools)],
        fragment |-> NamesOf(ptcTools)]

\* adaptPTCTools on generator b: the tool list it returns, b.Request.PTCSystemFragment set
adaptPTCTools(G, S, b, tool) ==
  LET x == ExtractPTCTools(tool) IN
  IF Len(x.ptc) > 0
  THEN LET e == EnsureRuntimeSession(G, S, b)
           a == AdaptToolsToPTC(e.S, e.G[b].Runtime, x.ptc, e.G[b].Request.PTCLanguage)
       IN IF ~a.ok
          THEN [G |-> [e.G EXCEPT ![b].Request.PTCSystemFragment = << >>], S |-> a.S,
                tools |-> x.regular \o x.ptc]
          ELSE [G |-> [e.G EXCEPT ![b].Request.PTCSystemFragment = a.fragment], S |-> a.S,
                tools |-> Append(x.regular, a.tool)]
  ELSE [G |-> [G EXCEPT ![b].Request.PTCSystemFragment = << >>], S |-> S, tools |-> x.regular]

\* SetTools
SetTools(G, S, b, tool) ==
  LET c == Clone(G, b)
      a == adaptPTCTools(c.G, S, c.id, tool)
  IN Heaps([a.G EXCEPT ![c.id].Request.Tools = a.tools], a.S, c.id)

\* AddTools
AddTools(G, S, b, tool) == SetTools(G, S, b, G[b].Request.Tools \o tool)

SetToolConfigChoiceOnly(G, S, b, tool) ==
  LET c == Clone(G, b) IN Heaps([c.G EXCEPT ![c.id].Request.ToolConfig = tool], S, c.id)

\* SetToolConfig
SetToolConfig(G, S, b, tool) ==
  LET c == Clone(G, b)
      G1 == [c.G EXCEPT ![c.id].Request.ToolConfig = tool]
  IN IF tool.Name \in Names(ControlTools) THEN Heaps(G1, S, c.id)
     ELSE Heaps([G1 EXCEPT ![c.id].Request.Tools = <<tool>>], S, c.id)

\* SetPTCLanguage: b.SetTools(bb.Request.Tools...) works on a clone of b of its own,
\* which is dropped, and with it the session made for that clone alone
SetPTCLanguage(G, S, b, language) ==
  LET c == Clone(G, b)
      G1 == [c.G EXCEPT ![c.id].Request.PTCLanguage = language]
      s == SetTools(G1, S, b, G1[c.id].Request.Tools)
      kept == IF G1[b].Runtime = 0 THEN S ELSE s.S
  IN Heaps(SubSeq(s.G, 1, Len(G1)), kept, c.id)

\* Output and Temperature, two of the setters of one field
Output(G, S, b, s) ==
  LET c == Clone(G, b) IN Heaps([c.G EXCEPT ![c.id].Request.OutputSchema = s], S, c.id)
Temperature(G, S, b, temperature) ==
  LET c == Clone(G, b) IN Heaps([c.G EXCEPT ![c.id].Request.Temperature = temperature], S, c.id)

\* A chain of builder calls b.X(...).Y(...) keeps the generators that were there,
\* as the calls left them, and the generator the last call returns
Keep(G, h) == Heaps(Append(SubSeq(h.G, 1, Len(G)), h.G[h.id]), h.S, Len(G) + 1)

\* RunWithToolsOnly, lines 101-112: the output schema off, the tools but the
\* sentinel set again
IsNotSentinel(t) == t.Name # customResultCalculatedTool
KeepAllTools(ts) == ts
StripSentinel(ts) == SelectSeq(ts, IsNotSentinel)
WithoutOutput(G, S, b) ==
  IF G[b].Request.OutputSchema # "nil" THEN Output(G, S, b, "nil") ELSE Heaps(G, S, b)
WithoutSentinel(G, S, b) ==
  LET o == WithoutOutput(G, S, b) IN SetTools(o.G, o.S, o.id, StripSentinel(o.G[o.id].Request.Tools))

\* RunWithToolsOnly, lines 114-120: the sentinel added and the tool choice required
PrepareToolsOnly(G, S, b) ==
  LET w == WithoutSentinel(G, S, b)
      a == AddTools(w.G, w.S, w.id, <<ResultTool>>)
  IN Keep(G, SetToolConfig(a.G, a.S, a.id, RequiredTool))

\* The generator a provider makes: an empty request and no runtime
NewGenerator == Generator(Request(<< >>), 0)

\* The call that returned a generator: its name, its tools or language argument, its receiver
\* and the request of the generator as it was returned
Made(op, input, from, request) == [op |-> op, input |-> input, from |-> from, request |-> request]


\* The Prompt calls that may be under way at once
Prompts == {"p1", "p2"}

\* Prompt calls made, at most
MaxPrompts == 2

\* The prompter: request is the field request of the provider's generator, which
\* every *gen.Generator made from one base holds as its Prompter; pc and gen are
\* the position of each Prompt call and the generator it was called on; issued
\* arg is b.clone().Request of each call, alone whether no other call was under
\* way during it; issued is the history of the requests the provider calls were
\* made with
NoPrompting ==
  [request |-> Request(<< >>), pc |-> [p \in Prompts |-> "idle"], gen |-> [p \in Prompts |-> 0],
   arg |-> [p \in Prompts |-> Request(<< >>)], alone |-> [p \in Prompts |-> TRUE],
   issued |-> << >>]

(***************************************************************************)
(* The proxy provider (package bellman): Prompt and Stream of its          *)
(* generator. The tools of the request as it is sent are a sequence of     *)
(* names; a *tools.Tool is an index into it, 0 being nil.                  *)
(***************************************************************************)

\* lines a server stream has, at most
MaxLines == 3

\* stream := make(chan *gen.StreamResponse, 100)
StreamCapacity == 100

\* tools.Call as decoded from JSON: Ref has the tag json:"-" and is nil
NoToolCall == [nil |-> TRUE, Name |-> "", Ref |-> 0]
ToolCall(name) == [nil |-> FALSE, Name |-> name, Ref |-> 0]

\* gen.StreamResponse
StreamResponse(type, call) == [Type |-> type, ToolCall |-> call]

\* The lines of the response body: an empty line, `data: ` and a JSON event, a
\* `data: [DONE]` line, a line without the data header, a data line that is not JSON
Line(kind, event) == [kind |-> kind, event |-> event]
NoEvent == StreamResponse("", NoToolCall)
ServerLines ==
  { Line("empty", NoEvent),
    Line("data", StreamResponse("delta", NoToolCall)),
    Line("data", StreamResponse("tool_call", ToolCall("get_weather"))),
    Line("data", StreamResponse("tool_call", ToolCall("code_execution"))),
    Line("data", StreamResponse("eof", NoToolCall)),
    Line("done", NoEvent),
    Line("comment", NoEvent),
    Line("badjson", NoEvent) }
ServerStreams == UNION {[1..n -> ServerLines] : n \in 0..MaxLines}

\* The tools of the requests the provider sends, the second with the two
\* code_execution tools that AddTools leaves
SentTools ==
  { <<"get_earnings", "get_weather">>,
    <<"code_execution", "get_weather", "code_execution">> }

\* The tool calls of the response bodies Prompt decodes
ResponseTools ==
  { <<ToolCall("get_weather")>>,
    <<ToolCall("code_execution"), ToolCall("get_unknown")>> }

\* for _, tool := range request.Tools { toolBelt[tool.Name] = &tool }: a name is
\* mapped to the last tool that has it; tool is a variable of its own in every
\* iteration (go 1.25.3)
Last(S) == CHOOSE k \in S : \A j \in S : j <= k
ToolBeltOneVariable(ts) == [n \in Elements(ts) |-> Len(ts)]
ToolBelt(ts) == [n \in Elements(ts) |-> Last({k \in 1..Len(ts) : ts[k] = n})]

\* toolBelt[name], nil for a name that is not in the map
BeltAt(toolBelt, name) == IF name \in DOMAIN toolBelt THEN toolBelt[name] ELSE 0

\* Prompt, lines 338-343: tool.Ref = toolBelt[tool.Name] for every call
AddReferences(toolBelt, calls) ==
  [k \in 1..Len(calls) |-> [calls[k] EXCEPT !.Ref = BeltAt(toolBelt, calls[k].Name)]]

\* processStreamingResponse: the Ref of the event's tool call is set when it is
\* nil and the tool belt has the name
processStreamingResponse(streamResp, toolBelt) ==
  IF ~streamResp.ToolCall.nil /\ streamResp.ToolCall.Ref = 0
       /\ streamResp.ToolCall.Name \in DOMAIN toolBelt
  THEN [streamResp EXCEPT !.ToolCall.Ref = toolBelt[streamResp.ToolCall.Name]]
  ELSE streamResp

\* The events the goroutine of Stream makes up itself
ErrorEvent == StreamResponse("error", NoToolCall)
EOFEvent == StreamResponse("eof", NoToolCall)

\* g.Prompt(...) returns the response decoded from the body, its calls' Refs set
CallPrompt(calls) ==
  /\ decoded' = AddReferences(ToolBelt(sent), calls)
  /\ UNCHANGED <<sent, lines, cancelled, spc, stream, closed, delivered>>

\* The context of the request is cancelled
Cancel ==
  /\ ~cancelled
  /\ spc # "closed"
  /\ cancelled' = TRUE
  /\ UNCHANGED <<sent, lines, spc, stream, closed, delivered, decoded>>

\* stream <- event
Send(event) ==
  /\ Len(stream) < StreamCapacity
  /\ stream' = Append(stream, event)

\* Stream's goroutine, the select at the top of its loop
Select ==
  /\ spc = "select"
  /\ IF cancelled
     THEN Send(ErrorEvent) /\ spc' = "deferred"
     ELSE spc' = "read" /\ UNCHANGED stream
  /\ UNCHANGED <<sent, lines, cancelled, closed, delivered, decoded>>

\* reader.ReadLine() returns an error: end of file, read after close, or another
ReadFails(err) ==
  /\ spc = "read"
  /\ lines = << >> \/ (cancelled /\ err = "other")
  /\ IF err = "other" THEN Send(ErrorEvent) ELSE UNCHANGED stream
  /\ spc' = "deferred"
  /\ UNCHANGED <<sent, lines, cancelled, closed, delivered, decoded>>

\* reader.ReadLine() returns a line: it is skipped, ends the loop, or is decoded,
\* given its tool reference and sent on; with the context cancelled the last
\* select may return instead
ReadLine(returns) ==
  /\ spc = "read"
  /\ lines # << >>
  /\ lines' = Tail(lines)
  /\ LET line == Head(lines) IN
     CASE line.kind = "empty" -> spc' = "select" /\ UNCHANGED stream
       [] line.kind = "comment" -> Send(ErrorEvent) /\ spc' = "deferred"
       [] line.kind = "done" -> spc' = "deferred" /\ UNCHANGED stream
       [] line.kind = "badjson" -> Send(ErrorEvent) /\ spc' = "deferred"
       [] line.kind = "data" ->
            IF returns
            THEN cancelled /\ spc' = "deferred" /\ UNCHANGED stream
            ELSE /\ Send(processStreamingResponse(line.event, ToolBelt(sent)))
                 /\ spc' = "select"
  /\ UNCHANGED <<sent, cancelled, closed, delivered, decoded>>

\* The deferred calls of the goroutine: stream <- eof, close(stream)
Deferred ==
  /\ spc = "deferred"
  /\ Send(EOFEvent)
  /\ closed' = TRUE
  /\ spc' = "closed"
  /\ UNCHANGED <<sent, lines, cancelled, delivered, decoded>>

\* The consumer receives the next event of the channel
Receive ==
  /\ stream # << >>
  /\ delivered' = Append(delivered, Head(stream))
  /\ stream' = Tail(stream)
  /\ UNCHANGED <<sent, lines, cancelled, spc, closed, decoded>>

\* What the entry point returned: (*Result, error)
NoOutcome ==
  [kind |-> "none", hasResult |-> FALSE, prompts |-> << >>, depth |-> 0,
   err |-> "", at |-> -1, failed |-> NoId]

SuccessNextDepth(ps, i) ==
  [kind |-> "ok", hasResult |-> TRUE, prompts |-> ps, depth |-> i + 1,
   err |-> "", at |-> -1, failed |-> NoId]

\* return &Result[T]{Prompts: prompts, ..., Depth: i}, nil
Success(ps, i) ==
  [kind |-> "ok", hasResult |-> TRUE, prompts |-> ps, depth |-> i,
   err |-> "", at |-> -1, failed |-> NoId]

\* return nil, fmt.Errorf(...): `at` is the depth the message names (-1: none),
\* `failed` the call whose function failed
Failure(err, at, failed) ==
  [kind |-> "error", hasResult |-> FALSE, prompts |-> << >>, depth |-> 0,
   err |-> err, at |-> at, failed |-> failed]

NoHistory ==
  [prompted |-> 0, turns |-> 0, invocations |-> << >>, invalid |-> FALSE,
   outOfOrder |-> FALSE, toolError |-> FALSE, promptedAtError |-> 0,
   emitted |-> << >>, returned |-> {}, response |-> << >>]

UserPrompts == <<AsUser(QuestionText)>>

\* the loop condition fails: return nil, fmt.Errorf("max depth %d reached", maxDepth)
LoopEnds ==
  /\ pc = "loop"
  /\ ~LoopContinues(depth, maxDepth)
  /\ outcome' = Failure("max depth reached", -1, NoId)
  /\ pc' = "done"
  /\ UNCHANGED <<entry, maxDepth, parallelism, resultIsString, depth, prompts, callbacks,
                 results, worker, semaphore, hist>>

\* g.Prompt returns an error
PromptFails ==
  /\ pc = "loop"
  /\ LoopContinues(depth, maxDepth)
  /\ hist' = [hist EXCEPT !.prompted = @ + 1]
  /\ outcome' = Failure("failed to prompt", depth, NoId)
  /\ pc' = "done"
  /\ UNCHANGED <<entry, maxDepth, parallelism, resultIsString, depth, prompts, callbacks,
                 results, worker, semaphore>>

\* g.Prompt returns a response without tool calls, whose text decodes into T or
\* does not
PromptText(decodes) ==
  /\ pc = "loop"
  /\ LoopContinues(depth, maxDepth)
  /\ hist' = [hist EXCEPT !.prompted = @ + 1]
  /\ outcome' =
       IF entry = "Run"
       THEN IF resultIsString \/ decodes THEN Success(prompts, depth)
            ELSE Failure("could not unmarshal text response", depth, NoId)
       ELSE Failure("failed to get tools", depth, NoId)
  /\ pc' = "done"
  /\ UNCHANGED <<entry, maxDepth, parallelism, resultIsString, depth, prompts, callbacks,
                 results, worker, semaphore>>

\* g.Prompt returns a response with tool calls: they are pre-validated, and the
\* dispatch begins or the entry point returns
PromptTools(list) ==
  /\ pc = "loop"
  /\ LoopContinues(depth, maxDepth)
  /\ LET cbs == WithIds(list, depth + 1)
         decided ==
           IF entry = "Run"
           THEN LET v == PreValidate(cbs) IN
                IF v.ok THEN NoOutcome ELSE Failure(v.err, -1, NoId)
           ELSE LET v == PreValidateToolsOnly(cbs) IN
                CASE v.kind = "final" -> Success(prompts, depth)
                  [] v.kind = "error" /\ v.err = "could not unmarshal final result" ->
                       Failure(v.err, depth, NoId)
                  [] v.kind = "error" -> Failure(v.err, -1, NoId)
                  [] OTHER -> NoOutcome
     IN /\ outcome' = decided
        /\ hist' = [hist EXCEPT !.prompted = @ + 1,
                                !.invocations = [k \in 1..Len(cbs) |-> 0],
                                !.response = cbs,
                                !.invalid = \E k \in 1..Len(cbs) : Invalid(cbs[k])]
        /\ IF decided.kind = "none"
           THEN /\ callbacks' = cbs
                /\ results' = [k \in 1..Len(cbs) |-> ZeroResult]
                /\ worker' = [k \in 1..Len(cbs) |-> "ready"]
                /\ pc' = "dispatch"
           ELSE /\ pc' = "done"
                /\ UNCHANGED <<callbacks, results, worker>>
  /\ UNCHANGED <<entry, maxDepth, parallelism, resultIsString, depth, prompts, semaphore>>

\* history of a function's return
Record(h, k, cb, r, late) ==
  [h EXCEPT !.returned = @ \cup {[id |-> cb.id, res |-> r.res, err |-> r.err]},
            !.outOfOrder = @ \/ late,
            !.toolError = @ \/ ~r.err.nil,
            !.promptedAtError = IF ~h.toolError /\ ~r.err.nil THEN h.prompted ELSE @]

\* for i, callback := range callbacks: the loop of executeCallbacksSequential has
\* no break, it comes to callback k whatever the callbacks before it returned
ReachesUntilError(rs, k) == \A j \in 1..(k - 1) : rs[j].Error.nil
Reaches(rs, k) == TRUE

\* executeCallbacksSequential: the next callback's function is called and its
\* result stored
SequentialCall(k, fails) ==
  /\ pc = "dispatch"
  /\ parallelism <= 1
  /\ worker[k] = "ready"
  /\ \A j \in 1..(k - 1) : worker[j] = "done"
  /\ IF Reaches(results, k)
     THEN LET r == Function(callbacks[k], fails) IN
          /\ results' = Store(results, k, CallbackResult(k, callbacks[k], r))
          /\ hist' = Record([hist EXCEPT !.invocations[k] = @ + 1], k, callbacks[k], r, FALSE)
     ELSE UNCHANGED <<results, hist>>
  /\ worker' = [worker EXCEPT ![k] = "done"]
  /\ UNCHANGED <<entry, maxDepth, parallelism, resultIsString, pc, depth, prompts, callbacks,
                 semaphore, outcome>>

\* semaphore <- struct{}{} on a channel made with capacity cap and holding len
\* tokens: the send goes through when the buffer has room
SendAlways(len, cap) == TRUE
SendProceeds(len, cap) == len < cap

\* executeCallbacksParallel: a goroutine acquires the semaphore and calls its
\* callback's function
Acquire(k) ==
  /\ pc = "dispatch"
  /\ parallelism > 1
  /\ worker[k] = "ready"
  /\ SendProceeds(semaphore, parallelism)
  /\ semaphore' = semaphore + 1
  /\ worker' = [worker EXCEPT ![k] = "running"]
  /\ hist' = [hist EXCEPT !.invocations[k] = @ + 1]
  /\ UNCHANGED <<entry, maxDepth, parallelism, resultIsString, pc, depth, prompts, callbacks,
                 results, outcome>>

\* executeCallbacksParallel: the function returns; the goroutine stores the result
\* at its index and releases the semaphore
Release(k, fails) ==
  /\ pc = "dispatch"
  /\ worker[k] = "running"
  /\ LET r == Function(callbacks[k], fails) IN
     /\ results' = Store(results, k, CallbackResult(k, callbacks[k], r))
     /\ hist' = Record(hist, k, callbacks[k], r, \E j \in 1..(k - 1) : worker[j] # "done")
  /\ semaphore' = semaphore - 1
  /\ worker' = [worker EXCEPT ![k] = "done"]
  /\ UNCHANGED <<entry, maxDepth, parallelism, resultIsString, pc, depth, prompts, callbacks,
                 outcome>>

\* every callback has returned (wg.Wait): the results are processed in order, and
\* the loop goes on to the next turn or the entry point returns the tool's error
Collect ==
  /\ pc = "dispatch"
  /\ \A k \in 1..Len(worker) : worker[k] = "done"
  /\ LET p == ProcessResults(prompts, callbacks, results, 1) IN
     /\ prompts' = p.prompts
     /\ IF p.failed # 0
        THEN /\ outcome' = Failure("tool failed", -1, callbacks[results[p.failed].Index].id)
             /\ pc' = "done"
             /\ UNCHANGED <<depth, hist>>
        ELSE /\ depth' = depth + 1
             /\ pc' = "loop"
             /\ hist' = [hist EXCEPT !.turns = @ + 1, !.emitted = @ \o callbacks]
             /\ UNCHANGED outcome
  /\ callbacks' = << >>
  /\ results' = << >>
  /\ worker' = << >>
  /\ UNCHANGED <<entry, maxDepth, parallelism, resultIsString, semaphore>>

InitAgent ==
  /\ entry \in {"Run", "RunWithToolsOnly"}
  /\ maxDepth \in 0..MaxDepthBound
  /\ parallelism \in 0..MaxParallelism
  /\ resultIsString \in BOOLEAN
  /\ pc = "loop"
  /\ depth = 0
  /\ prompts = UserPrompts
  /\ callbacks = << >>
  /\ results = << >>
  /\ worker = << >>
  /\ semaphore = 0
  /\ outcome = NoOutcome
  /\ hist = NoHistory
  /\ mutex = "free"
  /\ interrupted = FALSE
  /\ epc = [c \in Calls |-> "idle"]
  /\ script = [c \in Calls |-> NoScript]
  /\ timer = [c \in Calls |-> NoTimer]
  /\ elapsed = [c \in Calls |-> 0]
  /\ ret = [c \in Calls |-> NoReturn]
  /\ ended = [c \in Calls |-> NotEnded]
  /\ gens = <<NewGenerator>>
  /\ sessions = << >>
  /\ made = <<Made("New", << >>, 0, NewGenerator.Request)>>
  /\ sent = << >>
  /\ lines = << >>
  /\ cancelled = FALSE
  /\ spc = "closed"
  /\ stream = << >>
  /\ closed = TRUE
  /\ delivered = << >>
  /\ decoded = << >>
  /\ ran = << >>
  /\ prompting = NoPrompting

NextAgent ==
  \/ LoopEnds /\ UNCHANGED outsideAgent
  \/ PromptFails /\ UNCHANGED outsideAgent
  \/ \E decodes \in BOOLEAN : PromptText(decodes) /\ UNCHANGED outsideAgent
  \/ \E list \in ToolLists \cup (IF entry = "Run" THEN {} ELSE ResultLists) :
       PromptTools(list) /\ UNCHANGED outsideAgent
  \/ \E k \in 1..Len(worker), fails \in BOOLEAN :
       fails \in MayFail(callbacks[k]) /\ SequentialCall(k, fails) /\ UNCHANGED outsideAgent
  \/ \E k \in 1..Len(worker) : Acquire(k) /\ UNCHANGED outsideAgent
  \/ \E k \in 1..Len(worker), fails \in BOOLEAN :
       fails \in MayFail(callbacks[k]) /\ Release(k, fails) /\ UNCHANGED outsideAgent
  \/ Collect /\ UNCHANGED outsideAgent

SpecAgent == InitAgent /\ [][NextAgent]_vars

ConcurrentScripts ==
  { Script(CodeSum, "value", Num(2), << >>),
    Script(CodeLoop, "loop", Undefined, << >>),
    Script(CodeAwait, "value", Undefined, << >>) }

InitExec ==
  /\ mutex = "free"
  /\ interrupted = FALSE
  /\ epc = [c \in Calls |-> "idle"]
  /\ script = [c \in Calls |-> NoScript]
  /\ timer = [c \in Calls |-> NoTimer]
  /\ elapsed = [c \in Calls |-> 0]
  /\ ret = [c \in Calls |-> NoReturn]
  /\ ended = [c \in Calls |-> NotEnded]
  /\ entry = "none"
  /\ maxDepth = 0
  /\ parallelism = 0
  /\ resultIsString = FALSE
  /\ pc = "done"
  /\ depth = 0
  /\ prompts = << >>
  /\ callbacks = << >>
  /\ results = << >>
  /\ worker = << >>
  /\ semaphore = 0
  /\ outcome = NoOutcome
  /\ hist = NoHistory
  /\ gens = <<NewGenerator>>
  /\ sessions = << >>
  /\ made = <<Made("New", << >>, 0, NewGenerator.Request)>>
  /\ sent = << >>
  /\ lines = << >>
  /\ cancelled = FALSE
  /\ spc = "closed"
  /\ stream = << >>
  /\ closed = TRUE
  /\ delivered = << >>
  /\ decoded = << >>
  /\ ran = << >>
  /\ prompting = NoPrompting

NextExec ==
  \/ \E c \in Calls : InvokeBadArgument(c) /\ UNCHANGED outsideExec
  \/ \E c \in Calls, s \in ConcurrentScripts : InvokeRefused(c, s) /\ UNCHANGED outsideExec
  \/ \E c \in Calls, s \in ConcurrentScripts : InvokeAccepted(c, s) /\ UNCHANGED outsideExec
  \/ \E c \in Calls : Lock(c) /\ UNCHANGED outsideExec
  \/ \E c \in Calls : Complete(c) /\ UNCHANGED outsideExec
  \/ \E c \in Calls : Interrupt(c) /\ UNCHANGED outsideExec
  \/ \E c \in Calls : StopTimer(c) /\ UNCHANGED outsideExec
  \/ \E c \in Calls : Fire(c) /\ UNCHANGED outsideExec
  \/ \E c \in Calls : Again(c) /\ UNCHANGED outsideExec
  \/ Tick /\ UNCHANGED outsideExec

SpecExec == InitExec /\ [][NextExec]_vars

\* A single caller: one executor call at a time, with any of the scripts
Sole == "c1"

NextSolo ==
  \/ InvokeBadArgument(Sole) /\ UNCHANGED outsideExec
  \/ \E s \in Scripts : InvokeRefused(Sole, s) /\ UNCHANGED outsideExec
  \/ \E s \in Scripts : InvokeAccepted(Sole, s) /\ UNCHANGED outsideExec
  \/ Lock(Sole) /\ UNCHANGED outsideExec
  \/ Complete(Sole) /\ UNCHANGED outsideExec
  \/ Interrupt(Sole) /\ UNCHANGED outsideExec
  \/ StopTimer(Sole) /\ UNCHANGED outsideExec
  \/ Fire(Sole) /\ UNCHANGED outsideExec
  \/ Again(Sole) /\ UNCHANGED outsideExec
  \/ Tick /\ UNCHANGED outsideExec

SpecSolo == InitExec /\ [][NextSolo]_vars

(***************************************************************************)
(* The builder calls a program makes on its generators                     *)
(***************************************************************************)

\* The languages a caller passes to SetPTCLanguage: tools.JavaScript, tools.Python,
\* tools.Go, tools.Lua and a tools.ProgramLanguage that is none of the constants
Languages == {"js", "python", "go", "lua", "ruby"}

\* The tool lists a caller passes to SetTools and to AddTools
SetToolsInputs == { <<Add>>, <<Lookup, Add>>, <<Add, Mul>>, <<Lookup>>, <<AddOther>> }
AddToolsInputs == { <<Mul>>, <<Lookup>>, <<Add>> }

\* The names a caller has supplied to a generator: those of its tools and those
\* its code_execution tools were made of
Supplied(ts) == (Names(ts) \cup UNION {{ts[k].Docs[d] : d \in 1..Len(ts[k].Docs)} : k \in 1..Len(ts)})
                  \ {codeExecution}

\* A builder call returned h: the heaps after it, and the history of the call
Returns(h, op, input, from) ==
  /\ Len(h.G) <= MaxGens
  /\ Len(h.S) <= MaxSessions
  /\ gens' = h.G
  /\ sessions' = h.S
  /\ made' = Append(made, Made(op, input, from, h.G[h.id].Request))

\* bb := b.SetTools(tool...)
CallSetTools(b, tool) ==
  Returns(Keep(gens, SetTools(gens, sessions, b, tool)), "SetTools", tool, b)

\* bb := b.AddTools(tool...), SetTools called with b's tools and the new ones
CallAddTools(b, tool) ==
  /\ Names(tool) \cap Supplied(gens[b].Request.Tools) = {}
  /\ Returns(Keep(gens, AddTools(gens, sessions, b, tool)), "SetTools",
             gens[b].Request.Tools \o tool, b)

\* bb := b.SetToolConfig(tool)
CallSetToolConfig(b, tool) ==
  Returns(Keep(gens, SetToolConfig(gens, sessions, b, tool)), "SetToolConfig", <<tool>>, b)

\* bb := b.SetPTCLanguage(language)
CallSetPTCLanguage(b, language) ==
  Returns(Keep(gens, SetPTCLanguage(gens, sessions, b, language)), "SetPTCLanguage",
          <<language>>, b)

\* bb := b.Output(s)
CallOutput(b, s) ==
  Returns(Keep(gens, Output(gens, sessions, b, s)), "Output", << >>, b)

\* bb := b.Temperature(temperature)
CallTemperature(b, temperature) ==
  Returns(Keep(gens, Temperature(gens, sessions, b, temperature)), "Temperature", << >>, b)

\* RunWithToolsOnly(maxDepth, parallelism, b, ...) up to its loop
CallRunWithToolsOnly(b) ==
  Returns(PrepareToolsOnly(gens, sessions, b), "RunWithToolsOnly", << >>, b)

\* b.EnsureRuntimeSession()
CallEnsureRuntimeSession(b) ==
  LET h == EnsureRuntimeSession(gens, sessions, b) IN
  /\ Len(h.S) <= MaxSessions
  /\ gens' = h.G
  /\ sessions' = h.S
  /\ UNCHANGED made

\* b.ResetRuntimeSession() on a generator that has a runtime
CallResetRuntimeSession(b) ==
  /\ gens[b].Runtime # 0
  /\ sessions[gens[b].Runtime].JS < MaxResets
  /\ sessions' = ResetRuntimeSession(gens, sessions, b).S
  /\ UNCHANGED <<gens, made>>

\* The function of the code_execution tool k of generator b is called with a
\* script that sets a global variable: the executor runs it in the interpreter
\* of the runtime it was made with
RunScript(b, k) ==
  LET t == gens[b].Request.Tools[k] IN
  /\ t.Name = codeExecution
  /\ t.Runtime # 0
  /\ sessions' = [sessions EXCEPT ![t.Runtime].Globals = @ \cup {b},
                                  ![t.Runtime].Vars = [x |-> 1]]
  /\ UNCHANGED <<gens, made>>

InitGen ==
  /\ gens = <<NewGenerator>>
  /\ sessions = << >>
  /\ made = <<Made("New", << >>, 0, NewGenerator.Request)>>
  /\ sent = << >>
  /\ lines = << >>
  /\ cancelled = FALSE
  /\ spc = "closed"
  /\ stream = << >>
  /\ closed = TRUE
  /\ delivered = << >>
  /\ decoded = << >>
  /\ ran = << >>
  /\ prompting = NoPrompting
  /\ mutex = "free"
  /\ interrupted = FALSE
  /\ epc = [c \in Calls |-> "idle"]
  /\ script = [c \in Calls |-> NoScript]
  /\ timer = [c \in Calls |-> NoTimer]
  /\ elapsed = [c \in Calls |-> 0]
  /\ ret = [c \in Calls |-> NoReturn]
  /\ ended = [c \in Calls |-> NotEnded]
  /\ entry = "none"
  /\ maxDepth = 0
  /\ parallelism = 0
  /\ resultIsString = FALSE
  /\ pc = "done"
  /\ depth = 0
  /\ prompts = << >>
  /\ callbacks = << >>
  /\ results = << >>
  /\ worker = << >>
  /\ semaphore = 0
  /\ outcome = NoOutcome
  /\ hist = NoHistory

NextGen ==
  \/ \E b \in 1..Len(gens), tool \in SetToolsInputs : CallSetTools(b, tool) /\ UNCHANGED outsideGen
  \/ \E b \in 1..Len(gens), tool \in AddToolsInputs : CallAddTools(b, tool) /\ UNCHANGED outsideGen
  \/ \E b \in 1..Len(gens), tool \in {RequiredTool, Add} :
       CallSetToolConfig(b, tool) /\ UNCHANGED outsideGen
  \/ \E b \in 1..Len(gens), language \in Languages :
       CallSetPTCLanguage(b, language) /\ UNCHANGED outsideGen
  \/ \E b \in 1..Len(gens) : CallOutput(b, "schema") /\ UNCHANGED outsideGen
  \/ \E b \in 1..Len(gens) : CallTemperature(b, 1) /\ UNCHANGED outsideGen
  \/ \E b \in 1..Len(gens) : CallRunWithToolsOnly(b) /\ UNCHANGED outsideGen
  \/ \E b \in 1..Len(gens) : CallEnsureRuntimeSession(b) /\ UNCHANGED outsideGen
  \/ \E b \in 1..Len(gens) : CallResetRuntimeSession(b) /\ UNCHANGED outsideGen
  \/ \E b \in 1..Len(gens) : \E k \in 1..Len(gens[b].Request.Tools) :
       RunScript(b, k) /\ UNCHANGED outsideGen

SpecGen == InitGen /\ [][NextGen]_vars

(***************************************************************************)
(* Scripts run one after the other through the code_execution tools of     *)
(* the generators: what the interpreter of a session does with a script,   *)
(* the wrappers of the bound tools, and the executor from its invocation   *)
(* to its return.                                                          *)
(***************************************************************************)

\* executor calls in a history, at most
MaxRuns == 3

\* The statements of the scripts: var name=value, name, and name(...) with a
\* number of arguments, each an empty object
Declare(name, value) == [kind |-> "declare", name |-> name, value |-> value, nargs |-> 0]
Read(name) == [kind |-> "read", name |-> name, value |-> 0, nargs |-> 0]
CallOf(name, nargs) == [kind |-> "call", name |-> name, value |-> 0, nargs |-> nargs]
NoStatement == [kind |-> "none", name |-> "", value |-> 0, nargs |-> 0]

\* The scripts a model submits here, and the statement each is
Statement(code) ==
  CASE code = CodeVar -> Declare("x", 1)
    [] code = CodeReturned -> Declare("returned", 2)
    [] code = CodeReadX -> Read("x")
    [] code = CodeReadReturned -> Read("returned")
    [] code = CodeCallNone -> CallOf("add", 0)
    [] code = CodeCallOne -> CallOf("add", 1)
    [] code = CodeCallTwo -> CallOf("add", 2)
    [] OTHER -> NoStatement

\* The spelling of an identifier
Spell(name) ==
  CASE name = "x" -> CodeReadX
    [] name = "returned" -> SpellReturned
    [] name = "add" -> SpellAdd
    [] OTHER -> << >>

\* What the functions of the caller's tools return: (res, err)
ToolFunction(function) ==
  IF function = "addOther" THEN Return(<< >>, Err(ToolFailedMsg)) ELSE Return(SumText, NoErr)

\* bindToolToJSVM, the wrapper bound to name for a tool with this function, called
\* with nargs arguments: the value it returns and the function it called
Wrapped(value, called) == [value |-> value, called |-> called]
wrapper(name, function, nargs) ==
  IF nargs > 1
  THEN Wrapped(ErrorObject(TooManyOpen \o Spell(name) \o TooManyExpects \o Itoa(nargs)
                             \o TooManyUsage \o Spell(name) \o TooManyClose), "nil")
  ELSE IF nargs = 0
  THEN Wrapped(GoError(RequiresOpen \o Spell(name) \o RequiresClose), "nil")
  ELSE LET r == ToolFunction(function) IN
       IF ~r.err.nil THEN Wrapped(Failed(r.err.msg), function)
       ELSE Wrapped(Num(2), function)

\* How the evaluation of a statement ends in an interpreter with these bindings
\* and global variables: the end, the global variables after it, the function a
\* wrapper called, and whether a global variable was written
Evaluated(end, declared, called, wrote) ==
  [end |-> end, declared |-> declared, called |-> called, wrote |-> wrote]
NotDefined(name) == EndError(RefErrOpen \o Spell(name) \o RefErrClose)
Evaluate(s, bound, declared) ==
  CASE s.kind = "declare" ->
         Evaluated(EndValue(Undefined),
                   [n \in DOMAIN declared \cup {s.name} |->
                      IF n = s.name THEN s.value ELSE declared[n]],
                   "nil", TRUE)
    [] s.kind = "read" ->
         IF s.name \in DOMAIN declared
         THEN Evaluated(EndValue(Num(declared[s.name])), declared, "nil", FALSE)
         ELSE Evaluated(NotDefined(s.name), declared, "nil", FALSE)
    [] s.kind = "call" ->
         IF s.name \in DOMAIN bound
         THEN LET w == wrapper(s.name, bound[s.name], s.nargs) IN
              Evaluated(EndValue(w.value), declared, w.called, FALSE)
         ELSE Evaluated(NotDefined(s.name), declared, "nil", FALSE)
    [] OTHER -> Evaluated(EndValue(Undefined), declared, "nil", FALSE)

\* runtime.JS.RunString(code): a script that is a function called at once has
\* its variables to itself and, with no return statement, the value undefined
IsIIFE(code) == HasPrefix(code, IIFEOpen) /\ HasSuffix(code, IIFEClose)
Body(code) == SubSeq(code, Len(IIFEOpen) + 1, Len(code) - Len(IIFEClose))
RunString(code, bound, declared) ==
  IF IsIIFE(code)
  THEN LET v == Evaluate(Statement(Body(code)), bound, declared) IN
       Evaluated(IF v.end.kind = "value" THEN EndValue(Undefined) ELSE v.end,
                 declared, v.called, FALSE)
  ELSE Evaluate(Statement(code), bound, declared)

\* One call of an executor, from its invocation to its return: the session and
\* the interpreter (the count of goja.New() calls) it ran in, the script of its
\* argument, whether ctx was done when it was invoked, whether RunString was
\* called and with what, how RunString ended, the function a wrapper called, and
\* what the executor returned
Ran(session, js, code, ctxDone, started, submitted, end, called, returned) ==
  [session |-> session, js |-> js, code |-> code, ctxDone |-> ctxDone, started |-> started,
   submitted |-> submitted, end |-> end, called |-> called, returned |-> returned]

\* executor(ctx, call) of the code_execution tool that generator b holds and that
\* was made for session r, with no other call on the session and a script that
\* ends within the timeout: ctx is not read
executor(S, r, b, arg, ctxDone) ==
  LET e == ExecutorEntry(arg) IN
  IF e.done
  THEN [S |-> S,
        run |-> Ran(r, S[r].JS, arg.code, ctxDone, FALSE, << >>, NotEnded, "nil", e.ret)]
  ELSE LET code == GuardRailJS(arg.code).code
           v == RunString(code, S[r].Bound, S[r].Vars)
       IN [S |-> [S EXCEPT ![r].Vars = v.declared,
                           ![r].Globals = IF v.wrote THEN @ \cup {b} ELSE @],
           run |-> Ran(r, S[r].JS, arg.code, ctxDone, TRUE, code, v.end, v.called,
                       ExecutorResult(v.end))]

\* The scripts submitted one after the other
SequentialScripts ==
  {CodeVar, CodeReturned, CodeReadX, CodeReadReturned, CodeCallNone, CodeCallOne, CodeCallTwo,
   CodeAwait}

\* The function of the code_execution tool k of generator b is called with a script
Execute(b, k, code) ==
  LET t == gens[b].Request.Tools[k] IN
  /\ Len(ran) < MaxRuns
  /\ t.Name = codeExecution
  /\ t.Runtime # 0
  /\ LET x == executor(sessions, t.Runtime, b, Argument(code), cancelled) IN
     /\ sessions' = x.S
     /\ ran' = Append(ran, x.run)
  /\ UNCHANGED <<gens, made, cancelled>>

\* The caller cancels the context it passes to the agent and to the tools
CancelContext ==
  /\ ~cancelled
  /\ cancelled' = TRUE
  /\ UNCHANGED <<gens, sessions, made, ran>>

NextScript ==
  \/ \E tool \in {<<Add>>, <<AddOther>>} :
       CallSetTools(Len(gens), tool) /\ UNCHANGED <<ran, cancelled>> /\ UNCHANGED outsideScript
  \/ \E b \in 1..Len(gens) :
       CallResetRuntimeSession(b) /\ UNCHANGED <<ran, cancelled>> /\ UNCHANGED outsideScript
  \/ \E k \in 1..Len(gens[Len(gens)].Request.Tools), code \in SequentialScripts :
       Execute(Len(gens), k, code) /\ UNCHANGED outsideScript
  \/ CancelContext /\ UNCHANGED outsideScript

SpecScript == InitGen /\ [][NextScript]_vars

(***************************************************************************)
(* A script whose tool function calls a code_execution executor of the     *)
(* same session: the wrapper calls t.Function on the goroutine that holds  *)
(* runtime.Mutex, and the executor the function calls locks it again.      *)
(***************************************************************************)

\* The script of the outer call: run_script is a bound tool whose function calls
\* the executor with a script of its own and returns what the executor returns
NestedScript == Script(CodeNested, "nested", Obj(KeyA, 1), << >>)

\* The outer executor call is made by the agent
InvokeOuter ==
  InvokeAccepted(Outer, NestedScript)

\* wrapper, t.Function(context.Background(), ...): the tool function of the running
\* outer script calls the executor; its argument does not decode, or its script is
\* refused by the guardrail, or the call goes on to arm its timer
ToolInvokesBadArgument ==
  /\ epc[Outer] = "running"
  /\ InvokeBadArgument(Inner)
ToolInvokesRefused(s) ==
  /\ epc[Outer] = "running"
  /\ InvokeRefused(Inner, s)
ToolInvokesAccepted(s) ==
  /\ epc[Outer] = "running"
  /\ InvokeAccepted(Inner, s)

\* RunString of call c ends: that of the outer call only once its tool function
\* has returned, which is when the executor call it made has returned
ToolReturned(c) == c = Outer => epc[Inner] = "returned"
NestedComplete(c) == ToolReturned(c) /\ Complete(c)
NestedInterrupt(c) == ToolReturned(c) /\ Interrupt(c)

\* The agent takes the outer call's return value; the next call can be made
NestedAgain ==
  /\ epc[Outer] = "returned"
  /\ epc[Inner] \in {"idle", "returned"}
  /\ epc' = [c \in Calls |-> "idle"]
  /\ script' = [c \in Calls |-> NoScript]
  /\ timer' = [c \in Calls |-> NoTimer]
  /\ elapsed' = [c \in Calls |-> 0]
  /\ ret' = [c \in Calls |-> NoReturn]
  /\ ended' = [c \in Calls |-> NotEnded]
  /\ UNCHANGED <<mutex, interrupted>>

NextNested ==
  \/ InvokeOuter /\ UNCHANGED outsideExec
  \/ ToolInvokesBadArgument /\ UNCHANGED outsideExec
  \/ \E s \in ConcurrentScripts : ToolInvokesRefused(s) /\ UNCHANGED outsideExec
  \/ \E s \in ConcurrentScripts : ToolInvokesAccepted(s) /\ UNCHANGED outsideExec
  \/ \E c \in Calls : Lock(c) /\ UNCHANGED outsideExec
  \/ \E c \in Calls : NestedComplete(c) /\ UNCHANGED outsideExec
  \/ \E c \in Calls : NestedInterrupt(c) /\ UNCHANGED outsideExec
  \/ \E c \in Calls : StopTimer(c) /\ UNCHANGED outsideExec
  \/ \E c \in Calls : Fire(c) /\ UNCHANGED outsideExec
  \/ NestedAgain /\ UNCHANGED outsideExec
  \/ Tick /\ UNCHANGED outsideExec

SpecNested == InitExec /\ [][NextNested]_vars

(***************************************************************************)
(* Generator.Prompt on generators made from one base. clone copies the     *)
(* Prompter field as it is, so every generator made from a base calls      *)
(* SetRequest and Prompt on the one prompter of the base: SetRequest       *)
(* writes its field request, Prompt reads it, and nothing orders the two   *)
(* of one call against those of another.                                   *)
(***************************************************************************)

\* What a copy of a gen.Request can hold when it is read or written while a write
\* of b is under way: every field from a or from b
Mixes(a, b) ==
  {[f \in DOMAIN a |-> IF f \in fromA THEN a[f] ELSE b[f]] : fromA \in SUBSET DOMAIN a}

\* The requests other calls are writing to the prompter
Writing(p) ==
  {prompting.arg[q] : q \in {q \in Prompts \ {p} : prompting.pc[q] = "writing"}}

\* What g.request holds once call p has written r to it, and what call p reads
\* from it
Written(p, r) == {r} \cup UNION {Mixes(r, w) : w \in Writing(p)}
Seen(p) == {prompting.request} \cup UNION {Mixes(prompting.request, w) : w \in Writing(p)}

\* b.Prompt(prompts...): b.clone().Request is made and prompter.SetRequest called
GeneratorPrompt(p, b) ==
  /\ prompting.pc[p] = "idle"
  /\ Len(prompting.issued) + Cardinality({q \in Prompts : prompting.pc[q] # "idle"}) < MaxPrompts
  /\ prompting' =
       [prompting EXCEPT
          !.pc[p] = "writing",
          !.gen[p] = b,
          !.arg[p] = gens[b].Request,
          !.alone = [q \in Prompts |-> IF q = p THEN \A o \in Prompts \ {p} : prompting.pc[o] = "idle"
                                        ELSE IF prompting.pc[q] = "idle" THEN @[q] ELSE FALSE]]
  /\ UNCHANGED genVars

\* generator.SetRequest: g.request = request
SetRequest(p) ==
  /\ prompting.pc[p] = "writing"
  /\ \E r \in Written(p, prompting.arg[p]) :
       prompting' = [prompting EXCEPT !.request = r, !.pc[p] = "set"]
  /\ UNCHANGED genVars

\* generator.Prompt: request := gen.FullRequest{Request: g.request, ...}, which is
\* marshalled and posted
PrompterPrompt(p) ==
  /\ prompting.pc[p] = "set"
  /\ \E r \in Seen(p) :
       prompting' =
         [prompting EXCEPT
            !.pc[p] = "idle",
            !.issued = Append(@, [gen |-> prompting.gen[p], own |-> prompting.arg[p],
                                  request |-> r, alone |-> prompting.alone[p]])]
  /\ UNCHANGED genVars

\* The program has made two generators from the base and prompts them, from one
\* goroutine or from two
NextPrompt ==
  \/ \E tool \in {<<Lookup>>, <<Add>>} :
       CallSetTools(1, tool) /\ UNCHANGED prompting /\ UNCHANGED outsidePrompt
  \/ CallTemperature(1, 1) /\ UNCHANGED prompting /\ UNCHANGED outsidePrompt
  \/ CallSetToolConfig(1, RequiredTool) /\ UNCHANGED prompting /\ UNCHANGED outsidePrompt
  \/ \E p \in Prompts, b \in 1..Len(gens) : GeneratorPrompt(p, b) /\ UNCHANGED outsidePrompt
  \/ \E p \in Prompts : SetRequest(p) /\ UNCHANGED outsidePrompt
  \/ \E p \in Prompts : PrompterPrompt(p) /\ UNCHANGED outsidePrompt

SpecPrompt == InitGen /\ [][NextPrompt]_vars

(***************************************************************************)
(* The proxy provider: one Stream call and the Prompt calls of a generator *)
(***************************************************************************)

InitProxy ==
  /\ sent \in SentTools
  /\ lines \in ServerStreams
  /\ cancelled = FALSE
  /\ spc = "select"
  /\ stream = << >>
  /\ closed = FALSE
  /\ delivered = << >>
  /\ decoded = << >>
  /\ ran = << >>
  /\ prompting = NoPrompting
  /\ gens = <<NewGenerator>>
  /\ sessions = << >>
  /\ made = <<Made("New", << >>, 0, NewGenerator.Request)>>
  /\ mutex = "free"
  /\ interrupted = FALSE
  /\ epc = [c \in Calls |-> "idle"]
  /\ script = [c \in Calls |-> NoScript]
  /\ timer = [c \in Calls |-> NoTimer]
  /\ elapsed = [c \in Calls |-> 0]
  /\ ret = [c \in Calls |-> NoReturn]
  /\ ended = [c \in Calls |-> NotEnded]
  /\ entry = "none"
  /\ maxDepth = 0
  /\ parallelism = 0
  /\ resultIsString = FALSE
  /\ pc = "done"
  /\ depth = 0
  /\ prompts = << >>
  /\ callbacks = << >>
  /\ results = << >>
  /\ worker = << >>
  /\ semaphore = 0
  /\ outcome = NoOutcome
  /\ hist = NoHistory

NextProxy ==
  \/ \E calls \in ResponseTools : CallPrompt(calls) /\ UNCHANGED outsideProxy
  \/ Cancel /\ UNCHANGED outsideProxy
  \/ Select /\ UNCHANGED outsideProxy
  \/ \E err \in {"EOF", "ReadAfterClose", "other"} : ReadFails(err) /\ UNCHANGED outsideProxy
  \/ \E returns \in BOOLEAN : ReadLine(returns) /\ UNCHANGED outsideProxy
  \/ Deferred /\ UNCHANGED outsideProxy
  \/ Receive /\ UNCHANGED outsideProxy

SpecProxy == InitProxy /\ [][NextProxy]_vars

(***************************************************************************)
(* The proxy provider: a Stream call whose server sends as many events as  *)
(* the channel holds, or one more, and whose consumer receives when it     *)
(* likes, or not at all                                                    *)
(***************************************************************************)

\* A body of n lines `data: {"type":"delta",...}`, after which it ends
Deltas(n) == [k \in 1..n |-> Line("data", StreamResponse("delta", NoToolCall))]
LongStreams == {Deltas(StreamCapacity), Deltas(StreamCapacity + 1)}

InitStream ==
  /\ sent = <<"get_earnings", "get_weather">>
  /\ lines \in LongStreams
  /\ cancelled = FALSE
  /\ spc = "select"
  /\ stream = << >>
  /\ closed = FALSE
  /\ delivered = << >>
  /\ decoded = << >>
  /\ ran = << >>
  /\ prompting = NoPrompting
  /\ gens = <<NewGenerator>>
  /\ sessions = << >>
  /\ made = <<Made("New", << >>, 0, NewGenerator.Request)>>
  /\ mutex = "free"
  /\ interrupted = FALSE
  /\ epc = [c \in Calls |-> "idle"]
  /\ script = [c \in Calls |-> NoScript]
  /\ timer = [c \in Calls |-> NoTimer]
  /\ elapsed = [c \in Calls |-> 0]
  /\ ret = [c \in Calls |-> NoReturn]
  /\ ended = [c \in Calls |-> NotEnded]
  /\ entry = "none"
  /\ maxDepth = 0
  /\ parallelism = 0
  /\ resultIsString = FALSE
  /\ pc = "done"
  /\ depth = 0
  /\ prompts = << >>
  /\ callbacks = << >>
  /\ results = << >>
  /\ worker = << >>
  /\ semaphore = 0
  /\ outcome = NoOutcome
  /\ hist = NoHistory

\* The steps of the goroutine Stream started
StreamGoroutine ==
  \/ Select
  \/ \E err \in {"EOF", "ReadAfterClose", "other"} : ReadFails(err)
  \/ \E returns \in BOOLEAN : ReadLine(returns)
  \/ Deferred

NextStream ==
  \/ Cancel /\ UNCHANGED outsideProxy
  \/ Select /\ UNCHANGED outsideProxy
  \/ \E err \in {"EOF", "ReadAfterClose", "other"} : ReadFails(err) /\ UNCHANGED outsideProxy
  \/ \E returns \in BOOLEAN : ReadLine(returns) /\ UNCHANGED outsideProxy
  \/ Deferred /\ UNCHANGED outsideProxy
  \/ Receive /\ UNCHANGED outsideProxy

\* The goroutine is scheduled as long as it can take a step; the consumer and the
\* owner of the context do as they like
SpecStream ==
  InitStream /\ [][NextStream]_vars /\ WF_vars(StreamGoroutine /\ UNCHANGED outsideProxy)

\* The same with a consumer that receives as long as there is an event
SpecStreamDrained ==
  SpecStream /\ WF_vars(Receive /\ UNCHANGED outsideProxy)

(***************************************************************************)
(* The claims                                                              *)
(***************************************************************************)

\* C1: in the conversation that a successful Run or RunWithToolsOnly returns, every
\* tool-call entry at position i is followed at position i+1 by a tool-response
\* entry with the same id and name.
C1_ToolCallsAnswered ==
  outcome.kind = "ok" =>
    \A i \in 1..Len(outcome.prompts) :
      outcome.prompts[i].role = "tool_call" =>
        /\ i < Len(outcome.prompts)
        /\ outcome.prompts[i + 1].role = "tool_response"
        /\ outcome.prompts[i + 1].id = outcome.prompts[i].id
        /\ outcome.prompts[i + 1].name = outcome.prompts[i].name

\* a run returned a conversation with two answered tool calls
C1_Witness ==
  /\ outcome.kind = "ok"
  /\ Len(outcome.prompts) >= 5
  /\ outcome.prompts[2].role = "tool_call"

\* The conversation that the calls dispatched so far, in the order the model
\* emitted them, and what their functions returned give
RECURSIVE InEmittedOrder(_)
InEmittedOrder(calls) ==
  IF calls = << >> THEN << >>
  ELSE LET cb == Head(calls)
           r == CHOOSE x \in hist.returned : x.id = cb.id
       IN <<AsToolCall(cb.id, cb.name, cb.arg), AsToolResponse(cb.id, cb.name, r.res)>>
            \o InEmittedOrder(Tail(calls))

\* C2: between turns and at a successful return, the conversation is the caller's
\* prompts followed by one (tool call, tool response) pair per dispatched call in
\* the order the model emitted the calls, whatever order the functions returned in
\* and whatever the parallelism (0, 1 or more).
C2_EmittedOrder ==
  (pc \in {"loop", "done"} /\ outcome.kind # "error") =>
    prompts = UserPrompts \o InEmittedOrder(hist.emitted)

\* in parallel mode a function returned before the function of an earlier call,
\* and the turn was appended
C2_Witness ==
  /\ pc \in {"loop", "done"}
  /\ outcome.kind # "error"
  /\ parallelism > 1
  /\ hist.outOfOrder
  /\ Len(prompts) >= 5

\* C3: at most one script is being evaluated by the session's interpreter at any
\* instant, for any interleaving of concurrent code_execution calls.
C3_OneScriptAtATime == Cardinality({c \in Calls : epc[c] = "running"}) <= 1

\* one call evaluates its script while another waits for the mutex
C3_Witness == \E c, d \in Calls : epc[c] = "running" /\ epc[d] = "armed"

\* C4: a script never evaluates for more than the timeout (five seconds, plus the
\* time the interpreter needs to reach a safe point, which is less than a second):
\* a script that loops is interrupted within that bound.
C4_WithinTimeout == \A c \in Calls : epc[c] = "running" => elapsed[c] <= Timeout

\* C5: when a response of Run holds a tool call with no Ref or with a nil Function,
\* Run has returned an error of the pre-validation and no result, and no function of
\* that response was called.
C5_InvalidCallEndsRun ==
  (entry = "Run" /\ hist.invalid) =>
    /\ pc = "done"
    /\ outcome.kind = "error"
    /\ ~outcome.hasResult
    /\ outcome.err \in {"not found in local setup", "no callback function attached"}
    /\ \A k \in 1..Len(hist.invocations) : hist.invocations[k] = 0

\* Run ended on a response whose second call was invalid
C5_Witness ==
  /\ entry = "Run"
  /\ hist.invalid
  /\ pc = "done"
  /\ Len(hist.invocations) >= 2
  /\ outcome.err = "not found in local setup"

\* C6: once a dispatched tool function has returned a non-nil error, the provider is
\* not prompted again, and when the dispatch of the turn is over the entry point
\* (Run or RunWithToolsOnly) has returned the tool's error and no result.
C6_ToolErrorEndsRun ==
  hist.toolError =>
    /\ hist.prompted = hist.promptedAtError
    /\ pc \in {"dispatch", "done"}
    /\ (pc = "done" =>
          /\ outcome.kind = "error"
          /\ outcome.err = "tool failed"
          /\ ~outcome.hasResult)

\* a run ended on the error of a tool function
C6_Witness == hist.toolError /\ pc = "done" /\ hist.prompted >= 2

\* The code_execution calls of the conversation whose script the guardrail refuses
RefusedCalls ==
  {i \in 1..Len(prompts) :
     /\ prompts[i].role = "tool_call"
     /\ prompts[i].name = "code_execution"
     /\ prompts[i].arg.valid
     /\ ~GuardRailJS(prompts[i].arg.code).err.nil}

\* s is a JSON object with the one key "error" and a string value
IsStructuredError(s) ==
  LET open == SkipSpace(s, 1)
      key == SkipSpace(s, open + 1)
      keyEnd == ScanString(s, key + 1)
      colon == SkipSpace(s, keyEnd)
      val == SkipSpace(s, colon + 1)
      valEnd == ScanString(s, val + 1)
      close == SkipSpace(s, valEnd)
  IN /\ IsValidJSON(s)
     /\ s[open] = "{"
     /\ s[key] = "\""
     /\ UnquoteJSON(s, key + 1) = ErrorKey
     /\ s[colon] = ":"
     /\ s[val] = "\""
     /\ s[close] = "}"
     /\ close = Len(s)

\* The message of a structured error
ErrorOf(s) ==
  LET open == SkipSpace(s, 1)
      key == SkipSpace(s, open + 1)
      colon == SkipSpace(s, ScanString(s, key + 1))
      val == SkipSpace(s, colon + 1)
  IN UnquoteJSON(s, val + 1)

\* C7: a code_execution call whose script fails a guardrail is answered in the
\* conversation by a tool response that is a structured error, the object
\* {"error": ...}; the run does not end on an error of that call, and the loop goes
\* on to the next turn.
C7_GuardrailStructuredError ==
  \A i \in RefusedCalls :
    /\ i < Len(prompts)
    /\ prompts[i + 1].role = "tool_response"
    /\ prompts[i + 1].id = prompts[i].id
    /\ IsStructuredError(prompts[i + 1].text)
    /\ ~(outcome.kind = "error" /\ outcome.failed = prompts[i].id)
    /\ (outcome.kind # "error" => depth >= prompts[i].id[1])

\* C8: when RunString ended with an error (an exception of the script or the
\* timeout interrupt), the executor returned a nil error and the response string
\* {"error": "<msg>"}, <msg> being the error's text.
C8_RunErrorIsResponse ==
  \A c \in Calls :
    (ret[c].set /\ ended[c].kind = "error") =>
      /\ ret[c].err.nil
      /\ IsStructuredError(ret[c].res)
      /\ ErrorOf(ret[c].res) = ended[c].text

\* a script threw a message with a quote in it, and the call returned
C8_Witness ==
  \E c \in Calls : ret[c].set /\ ended[c].kind = "error" /\ ended[c].text = MsgThrowAt

\* C9: every response string the executor returns with a nil error (success,
\* guardrail failure, interpreter error, recovered panic) is a valid JSON document.
C9_ResponseIsJSON ==
  \A c \in Calls : (ret[c].set /\ ret[c].err.nil) => IsValidJSON(ret[c].res)

\* C10: when every response of Run carried tool calls that were dispatched, Run
\* prompted the provider exactly maxDepth times and returned the "max depth
\* reached" error and no result or conversation.
C10_MaxDepthReached ==
  /\ (entry = "Run" /\ pc = "done" /\ hist.turns = hist.prompted) =>
       /\ outcome.kind = "error"
       /\ outcome.err = "max depth reached"
       /\ ~outcome.hasResult
       /\ outcome.prompts = << >>
       /\ hist.prompted = maxDepth
  /\ outcome.err = "max depth reached" => hist.prompted = maxDepth

\* Run used up a maxDepth of two turns
C10_Witness ==
  /\ entry = "Run"
  /\ outcome.err = "max depth reached"
  /\ maxDepth >= 2
  /\ hist.prompted = maxDepth

\* C11: Run with maxDepth = 0 never prompts the provider and never dispatches a
\* tool: its one step returns the "max depth reached" error and no result.
C11_ZeroDepth ==
  (entry = "Run" /\ maxDepth = 0) =>
    /\ hist.prompted = 0
    /\ pc \in {"loop", "done"}
    /\ (pc = "done" =>
          /\ outcome.kind = "error"
          /\ outcome.err = "max depth reached"
          /\ ~outcome.hasResult)

\* Run with maxDepth = 0 has returned
C11_Witness == entry = "Run" /\ maxDepth = 0 /\ pc = "done" /\ outcome.kind = "error"


\* The tools of a list that carry the PTC flag, by name
PTCNames(ts) == Names(ExtractPTCTools(ts).ptc)
RegularNames(ts) == Names(ExtractPTCTools(ts).regular)

\* What C12 asks of the generator SetTools returned for the tools input
AdaptedAsClaimed(input, request) ==
  /\ Count(request.Tools, codeExecution) = 1
  /\ PTCNames(input) \cap Names(request.Tools) = {}
  /\ RegularNames(input) \subseteq Names(request.Tools)
  /\ PTCNames(input) \subseteq Elements(request.PTCSystemFragment)

\* C12: every generator SetTools returned for a tool list with a PTC-flagged tool
\* holds exactly one tool named code_execution in place of the PTC tools of the
\* list, the regular tools of the list, and a fragment with a signature of every
\* PTC tool of the list.
C12_OneCodeExecution ==
  \A i \in 1..Len(gens) :
    (made[i].op = "SetTools" /\ PTCNames(made[i].input) # {}) =>
      AdaptedAsClaimed(made[i].input, made[i].request)

\* The same for SetTools on a generator whose language is not python and whose
\* tools argument has no tool named code_execution
C12_Remainder ==
  \A i \in 1..Len(gens) :
    (/\ made[i].op = "SetTools"
     /\ PTCNames(made[i].input) # {}
     /\ gens[made[i].from].Request.PTCLanguage # "python"
     /\ codeExecution \notin Names(made[i].input)) =>
      AdaptedAsClaimed(made[i].input, made[i].request)

\* The generators made by SetTools and AddTools calls alone
ByToolCalls ==
  LET by[i \in 1..Len(made)] ==
        \/ made[i].op = "New"
        \/ made[i].op = "SetTools" /\ by[made[i].from]
  IN {i \in 1..Len(made) : by[i]}

UniqueNames(ts) == \A k, l \in 1..Len(ts) : ts[k].Name = ts[l].Name => k = l

\* C13: after SetTools and AddTools calls with tools of pairwise distinct names, no
\* two tools of the generator's request have the same name.
C13_UniqueToolNames ==
  \A i \in ByToolCalls : UniqueNames(gens[i].Request.Tools)

\* The same for the generators SetTools returned for caller-supplied tools, none
\* of them named code_execution
C13_Remainder ==
  \A i \in ByToolCalls :
    codeExecution \notin Names(made[i].input) => UniqueNames(gens[i].Request.Tools)

\* C14: the request of every generator is the request it had when the call that
\* made it returned, whatever builder calls were made on it since.
C14_RequestUnchanged ==
  \A i \in 1..Len(gens) : gens[i].Request = made[i].request

\* A generator on which two builder calls were made, one of them SetTools or
\* SetPTCLanguage on a generator with tools
C14_Witness ==
  \E i, j, k \in 1..Len(gens) :
    /\ j # k
    /\ made[j].from = i
    /\ made[k].from = i
    /\ made[j].op \in {"SetTools", "SetPTCLanguage"}
    /\ gens[j].Request # gens[i].Request
    /\ gens[k].Request # gens[i].Request

\* C15: no two generators hold the same runtime session, and no session holds
\* globals written by scripts run through two generators.
C15_SessionsNotShared ==
  /\ \A i, j \in 1..Len(gens) :
       (i # j /\ gens[i].Runtime # 0) => gens[i].Runtime # gens[j].Runtime
  /\ \A r \in 1..Len(sessions) : Cardinality(sessions[r].Globals) <= 1

\* Generators that hold the same session were made one from the other, or from
\* the same generator that held it
C15_Remainder ==
  \A i, j \in 1..Len(gens) :
    (i < j /\ gens[i].Runtime # 0 /\ gens[i].Runtime = gens[j].Runtime) =>
      made[j].from # 0 /\ gens[made[j].from].Runtime = gens[j].Runtime

\* the callbacks whose function is executing
Running == {k \in 1..Len(worker) : worker[k] = "running"}

\* C16: in parallel mode at most `parallelism` tool functions of the turn execute
\* at the same time.
C16_BoundedConcurrency ==
  parallelism > 1 => Cardinality(Running) <= parallelism

\* `parallelism` functions execute and a further callback waits for the semaphore
C16_Witness ==
  /\ parallelism > 1
  /\ Cardinality(Running) = parallelism
  /\ \E k \in 1..Len(worker) : worker[k] = "ready"

\* the calls of the last response that name the result tool and whose argument
\* decodes as T
ResultCalls ==
  {k \in 1..Len(hist.response) :
     hist.response[k].name = customResultCalculatedTool /\ hist.response[k].arg.valid}

\* C17: when a call of a response to RunWithToolsOnly names the result tool, the
\* run returns the value decoded from its argument, at the depth of that turn and
\* with no function of the turn called; the call's Ref and Function are not checked.
C17_SentinelReturns ==
  (entry = "RunWithToolsOnly" /\ ResultCalls # {}) =>
    /\ pc = "done"
    /\ outcome.kind = "ok"
    /\ outcome.hasResult
    /\ outcome.depth = depth
    /\ \A k \in 1..Len(hist.invocations) : hist.invocations[k] = 0

\* The same when every call before the result call passes the pre-validation
C17_Remainder ==
  (/\ entry = "RunWithToolsOnly"
   /\ \E k \in ResultCalls : \A j \in 1..(k - 1) : ~Decides(hist.response[j])) =>
    /\ pc = "done"
    /\ outcome.kind = "ok"
    /\ outcome.hasResult
    /\ outcome.depth = depth
    /\ \A k \in 1..Len(hist.invocations) : hist.invocations[k] = 0

\* The generators RunWithToolsOnly prepared
Prepared == {i \in 1..Len(made) : made[i].op = "RunWithToolsOnly"}

\* C18: the request RunWithToolsOnly prepared has no output schema, the tool choice
\* `required` and exactly one tool named __return_result_tool__.
C18_PreparedRequest ==
  \A i \in Prepared :
    /\ gens[i].Request.OutputSchema = "nil"
    /\ gens[i].Request.ToolConfig = RequiredTool
    /\ Count(gens[i].Request.Tools, customResultCalculatedTool) = 1

\* RunWithToolsOnly prepared a generator that it had prepared before
C18_Witness ==
  \E i \in Prepared :
    /\ made[i].from \in Prepared
    /\ Count(gens[made[i].from].Request.Tools, customResultCalculatedTool) = 1

\* the eof events the consumer received
EOFsDelivered == {k \in 1..Len(delivered) : delivered[k].Type = "eof"}

\* the channel is closed and the consumer has received all it held
Drained == closed /\ stream = << >>

\* C19: the consumer of a stream receives no event after an eof event, and when
\* the channel is closed and drained it has received exactly one eof event, the
\* last event delivered.
C19_OneEOF ==
  /\ \A k \in EOFsDelivered : k = Len(delivered)
  /\ Drained => Cardinality(EOFsDelivered) = 1

\* Whatever the server sends, the last event of a closed and drained stream is
\* the eof event that the goroutine added
C19_Remainder ==
  Drained => (delivered # << >> /\ delivered[Len(delivered)] = EOFEvent)

\* the Ref of a call refers to a tool of the request that has the call's name
RefersToNamed(call) == call.Ref \in 1..Len(sent) /\ sent[call.Ref] = call.Name

\* the tool calls of the events Stream's goroutine has sent
StreamedCalls ==
  {e.ToolCall : e \in {x \in Elements(delivered) \cup Elements(stream) : ~x.ToolCall.nil}}

\* C20: every tool call of a response Prompt decoded and of an event Stream sent
\* whose name is that of a tool of the request has a Ref that refers to that tool.
C20_RefsRewired ==
  /\ \A k \in 1..Len(decoded) :
       decoded[k].Name \in Elements(sent) => RefersToNamed(decoded[k])
  /\ \A call \in StreamedCalls :
       call.Name \in Elements(sent) => RefersToNamed(call)

\* Prompt and Stream each decoded a call of a tool that is not the last of the
\* request's tools
C20_Witness ==
  /\ \E k \in 1..Len(decoded) : decoded[k].Ref \in 1..(Len(sent) - 1)
  /\ \E e \in Elements(delivered) : ~e.ToolCall.nil /\ e.ToolCall.Ref \in 1..(Len(sent) - 1)

\* A call of a tool the request does not have keeps a nil Ref
C20_Unmatched ==
  /\ \A k \in 1..Len(decoded) : decoded[k].Name \notin Elements(sent) => decoded[k].Ref = 0
  /\ \A call \in StreamedCalls : call.Name \notin Elements(sent) => call.Ref = 0

\* The generators SetToolConfig returned
ByToolConfig == {i \in 1..Len(made) : made[i].op = "SetToolConfig"}

\* C21: the generator SetToolConfig(tool) returned has tool as its tool choice; its
\* tool list is that one tool when tool is not none, auto or required, and the
\* tool list of the receiver when it is.
C21_ToolConfigSet ==
  \A i \in ByToolConfig :
    LET tool == made[i].input[1] IN
    /\ made[i].request.ToolConfig = tool
    /\ made[i].request.Tools =
         IF tool.Name \in {"none", "auto", "required"}
         THEN gens[made[i].from].Request.Tools
         ELSE <<tool>>

\* SetToolConfig was called with the tool add, and with `required` on a generator
\* that had tools
C21_Witness ==
  \E i, j \in ByToolConfig :
    /\ made[i].input[1].Name = "add"
    /\ made[j].input[1] = RequiredTool
    /\ gens[made[j].from].Request.Tools # << >>

\* C22: whenever the tool choice of a generator's request is a tool other than
\* none, auto and required, that tool is in the request's tool list.
C22_ChosenToolPresent ==
  \A i \in 1..Len(gens) :
    gens[i].Request.ToolConfig.Name \notin {"nil", "none", "auto", "required"} =>
      gens[i].Request.ToolConfig \in Elements(gens[i].Request.Tools)

\* The generators SetPTCLanguage returned
ByLanguage == {i \in 1..Len(made) : made[i].op = "SetPTCLanguage"}

\* C23: the generator SetPTCLanguage(language) returned has that language, and its
\* tools are adapted for it: for a language the adapter implements no PTC-flagged
\* tool is left among them.
C23_LanguageReadapted ==
  \A i \in ByLanguage :
    /\ made[i].request.PTCLanguage = made[i].input[1]
    /\ made[i].input[1] \notin {"python", "go", "lua"} =>
         ExtractPTCTools(made[i].request.Tools).ptc = << >>

\* The language is set, and the tools and the fragment are those of the receiver
C23_Remainder ==
  \A i \in ByLanguage :
    /\ made[i].request.PTCLanguage = made[i].input[1]
    /\ made[i].request.Tools = gens[made[i].from].Request.Tools
    /\ made[i].request.PTCSystemFragment = gens[made[i].from].Request.PTCSystemFragment

\* The generators SetTools returned for tools with a PTC-flagged tool among them,
\* none of them named code_execution
Adaptations ==
  {i \in 1..Len(made) :
     /\ made[i].op = "SetTools"
     /\ PTCNames(made[i].input) # {}
     /\ codeExecution \notin Names(made[i].input)}

\* The adapter returned an error to the SetTools call that made generator i: the
\* tools are the regular and the PTC tools as given and the fragment is empty
NotImplemented(i) ==
  /\ made[i].request.Tools =
       ExtractPTCTools(made[i].input).regular \o ExtractPTCTools(made[i].input).ptc
  /\ made[i].request.PTCSystemFragment = << >>

AdaptedFor(i) == gens[made[i].from].Request.PTCLanguage

PTCLists == {ExtractPTCTools(ts).ptc : ts \in SetToolsInputs} \ {<< >>}

\* C25: on every session with an interpreter, the adapter invoked a second time
\* with the same PTC tools and language leaves the bindings as the first
\* invocation left them and returns the same tool and fragment; after an
\* invocation every tool's name is bound to that tool's function, whatever the
\* name was bound to; and SetTools called with the same tools on the generator
\* SetTools returned for them returns the same tool list and fragment.
C25_Idempotent ==
  /\ \A r \in 1..Len(sessions), ptcTools \in PTCLists, language \in Languages \cup {""} :
       sessions[r].JS # 0 =>
         LET once == AdaptToolsToPTC(sessions, r, ptcTools, language)
             twice == AdaptToolsToPTC(once.S, r, ptcTools, language)
         IN /\ twice.S = once.S
            /\ twice.tool = once.tool
            /\ twice.fragment = once.fragment
            /\ once.ok =>
                 \A k \in 1..Len(ptcTools) :
                   once.S[r].Bound[ptcTools[k].Name] = ptcTools[k].Function
  /\ \A i, j \in Adaptations :
       (made[j].from = i /\ made[j].input = made[i].input) =>
         /\ gens[j].Runtime = gens[i].Runtime
         /\ made[j].request.Tools = made[i].request.Tools
         /\ made[j].request.PTCSystemFragment = made[i].request.PTCSystemFragment

\* SetTools was called twice in a row with a tool named add, which left the name
\* bound to a function that is not the function of the tool Add
C25_Witness ==
  \E i, j \in Adaptations :
    /\ made[j].from = i
    /\ made[j].input = made[i].input
    /\ made[j].request.PTCSystemFragment # << >>
    /\ sessions[gens[j].Runtime].Bound["add"] = "addOther"

\* The SetTools and AddTools calls that had the adapter bind tools in session r
Invocations(r) ==
  {i \in 1..Len(made) :
     /\ made[i].op = "SetTools"
     /\ PTCNames(made[i].input) # {}
     /\ gens[i].Runtime = r
     /\ AdaptedFor(i) \notin {"python", "go", "lua"}}

\* The generator the latest of these calls returned
Latest(r) == CHOOSE i \in Invocations(r) : \A j \in Invocations(r) : j <= i

\* The PTC tools adapted for a generator: those its code_execution tools document
AdaptedNames(ts) == UNION {Elements(ts[k].Docs) : k \in 1..Len(ts)}

\* C26: after adapter invocations on a session whose interpreter was not replaced,
\* the names bound in the interpreter are exactly the names of the PTC tools
\* adapted for the generator the latest invocation was made for.
C26_BoundAreAdapted ==
  \A r \in 1..Len(sessions) :
    (Invocations(r) # {} /\ sessions[r].JS = 1) =>
      DOMAIN sessions[r].Bound = AdaptedNames(gens[Latest(r)].Request.Tools)

\* Every PTC tool adapted for that generator is bound; names bound by earlier
\* invocations stay bound
C26_Remainder ==
  \A r \in 1..Len(sessions) :
    (Invocations(r) # {} /\ sessions[r].JS = 1) =>
      AdaptedNames(gens[Latest(r)].Request.Tools) \subseteq DOMAIN sessions[r].Bound

\* The statement of the script a call of an executor was invoked with
StatementOf(k) == Statement(ran[k].code)

\* The calls of executors whose script called a bound tool function with no
\* argument or with more than one
ArityCalls ==
  {k \in 1..Len(ran) :
     /\ ran[k].started
     /\ StatementOf(k).kind = "call"
     /\ StatementOf(k).nargs # 1
     /\ ran[k].end # NotDefined(StatementOf(k).name)}

\* C27: a script that calls a bound tool function with zero arguments or with more
\* than one ends with a value, nothing thrown, no tool function is called, and the
\* value the binding returned is an object {error: string}.
C27_ArityErrorValue ==
  \A k \in ArityCalls :
    /\ ran[k].end.kind = "value"
    /\ ran[k].called = "nil"
    /\ ran[k].end.value.t = "error_object"

\* Nothing is thrown and no tool function is called in either case, and with more
\* than one argument the value is the object {error: string}, which the executor
\* returns as a structured error
C27_Remainder ==
  \A k \in ArityCalls :
    /\ ran[k].end.kind = "value"
    /\ ran[k].called = "nil"
    /\ StatementOf(k).nargs > 1 =>
         /\ ran[k].end.value.t = "error_object"
         /\ ran[k].returned.err.nil
         /\ IsStructuredError(ran[k].returned.res)

\* Call i ran an accepted script that declared a variable at top level
Declares(i) ==
  /\ ran[i].started
  /\ StatementOf(i).kind = "declare"
  /\ ran[i].end.kind = "value"

\* Call j ran, later than call i and in the same interpreter of the same session, a
\* script that reads the variable call i declared, and no call in between
\* declared it again
ReadsLater(i, j) ==
  /\ i < j
  /\ ran[j].session = ran[i].session
  /\ ran[j].js = ran[i].js
  /\ ran[j].started
  /\ StatementOf(j) = Read(StatementOf(i).name)
  /\ \A k \in (i + 1)..(j - 1) :
       ~(/\ ran[k].session = ran[i].session
         /\ Declares(k)
         /\ StatementOf(k).name = StatementOf(i).name)

\* C28: every script the guardrail accepts is run as it was submitted, and a
\* variable a script declared at top level is read with the value it was given by
\* every later script of the session, as long as the interpreter is not replaced.
C28_VariablesPersist ==
  /\ \A k \in 1..Len(ran) : ran[k].started => ran[k].submitted = ran[k].code
  /\ \A i, j \in 1..Len(ran) :
       (Declares(i) /\ ReadsLater(i, j)) =>
         ran[j].end = EndValue(Num(StatementOf(i).value))

\* A script declared returned, a second script called a tool and a third read
\* returned
C28_Witness ==
  /\ Len(ran) = 3
  /\ Declares(1)
  /\ ran[1].code = CodeReturned
  /\ StatementOf(2).kind = "call"
  /\ ReadsLater(1, 3)
  /\ ran[3].returned.res = SumText

\* C29: an executor invoked with a context that is already cancelled does not
\* start the script.
C29_CancelledNotStarted ==
  \A k \in 1..Len(ran) : ran[k].ctxDone => ~ran[k].started

\* The executor does with a cancelled context what it does with a live one
C29_Remainder ==
  \A k \in 1..Len(ran) :
    ran[k].started = ~ExecutorEntry(Argument(ran[k].code)).done

\* The errors of Run the failure semantics name: of the generator, of the decoding
\* of the final response, of a tool function, and of a tool call without a tool
\* or without a function
FatalErrors ==
  {"failed to prompt", "could not unmarshal text response", "tool failed",
   "not found in local setup", "no callback function attached"}

\* C30: every such error Run returned names the depth at which it occurred, the
\* turn the loop was in.
C30_ErrorsNameDepth ==
  (entry = "Run" /\ pc = "done" /\ outcome.kind = "error" /\ outcome.err \in FatalErrors) =>
    outcome.at = depth

\* The errors of the generator and of the decoding name the depth; those of the
\* pre-validation and of a tool function name none
C30_Remainder ==
  (entry = "Run" /\ pc = "done" /\ outcome.kind = "error") =>
    /\ outcome.err \in {"failed to prompt", "could not unmarshal text response"} =>
         outcome.at = depth
    /\ outcome.err \in {"tool failed", "not found in local setup",
                        "no callback function attached"} =>
         outcome.at = -1

\* C31: when Run returns a result, its Depth is the number of rounds of tool
\* calls that were answered and sent back to the model before the final response;
\* when the first response is text, Depth is 0 and the conversation returned is
\* the prompts Run was called with, one entry for one user prompt.
C31_DepthIsRoundTrips ==
  (entry = "Run" /\ pc = "done" /\ outcome.kind = "ok") =>
    /\ outcome.depth = hist.turns
    /\ hist.prompted = hist.turns + 1
    /\ hist.turns = 0 => (outcome.prompts = UserPrompts /\ Len(outcome.prompts) = 1)

\* Run returned a result after one round of tool calls
C31_Witness ==
  /\ entry = "Run"
  /\ pc = "done"
  /\ outcome.kind = "ok"
  /\ hist.turns = 1
  /\ outcome.depth = 1

\* Run was called with one user prompt, the first response held one tool call,
\* its function answered, and the second response was text
OneCallThenText ==
  /\ entry = "Run"
  /\ pc = "done"
  /\ outcome.kind = "ok"
  /\ hist.prompted = 2
  /\ Len(hist.emitted) = 1

\* C32: such a Run returns depth 1 and a conversation of 5 entries.
C32_FiveEntries ==
  OneCallThenText => (outcome.depth = 1 /\ Len(outcome.prompts) = 5)

\* Such a Run returns depth 1 and the user prompt, the tool call and the tool
\* response: the final response is in Result and in no entry of the conversation
C32_Remainder ==
  OneCallThenText =>
    /\ outcome.depth = 1
    /\ Len(outcome.prompts) = 3
    /\ [k \in 1..3 |-> outcome.prompts[k].role] = <<"user", "tool_call", "tool_response">>

\* The executor call a tool function of the running script made waits for the
\* mutex of the session
InnerWaits == epc[Inner] = "armed"

\* C33: once the executor call made by a tool function of a running script waits
\* for the session mutex, it waits forever and the script that called the tool
\* runs forever: neither call returns, whatever timers fire.
C33_Deadlock ==
  /\ [](InnerWaits => (epc[Outer] = "running" /\ mutex = Outer))
  /\ [][InnerWaits => InnerWaits']_vars

\* Both calls are still where they were after both timers fired
C33_Witness ==
  /\ InnerWaits
  /\ epc[Outer] = "running"
  /\ timer[Outer].state = "fired"
  /\ timer[Inner].state = "fired"
  /\ elapsed[Outer] = MaxElapsed

\* C34: the executor arms the interrupt timer after it has the session mutex: a
\* call that has not locked the mutex yet has no timer, so no part of its timeout
\* passes while it waits.
C34_MutexBeforeTimer ==
  \A c \in Calls : epc[c] \in {"idle", "armed"} => timer[c].state = "none"

\* Every call that waits for the mutex has its timer armed or fired already, and
\* a timer can fire on a call that never ran its script
C34_Remainder ==
  \A c \in Calls : epc[c] = "armed" => timer[c].state \in {"armed", "fired"}

\* A call waits for the mutex and its timer has fired
C34_FiredWaiting ==
  \E c \in Calls : epc[c] = "armed" /\ timer[c].state = "fired"

\* RunString of call c ended with the InterruptedError of a deadline timer
Interrupted(c) == ended[c].kind = "error" /\ ended[c].text = TimeoutMsg

\* A script was stopped by the interrupt of a timer of another call
C35_OwnTimerOnly ==
  \A c \in Calls : Interrupted(c) => timer[c].state = "fired"

\* The timer of a call whose script ran to its end did not fire
C35_NoneAfterCompletion ==
  \A c \in Calls :
    (epc[c] \in {"unlocked", "returned"} /\ ended[c].kind = "value") => timer[c].state # "fired"

\* C35: with calls made at once on one session, a script is interrupted by the
\* timer of its own call alone, and the timer of a call whose script ran to its end
\* raises no interrupt.
C35_InterruptIsOwn ==
  C35_OwnTimerOnly /\ C35_NoneAfterCompletion

\* C36: every provider call is made with the request of the generator Prompt was
\* called on, whether the Prompt calls on the generators made from one base run
\* one after the other or at once.
C36_OwnRequest ==
  \A k \in 1..Len(prompting.issued) :
    prompting.issued[k].gen > 1 => prompting.issued[k].request = prompting.issued[k].own

\* A Prompt call during which no other was under way is made with its own request
C36_Remainder ==
  \A k \in 1..Len(prompting.issued) :
    prompting.issued[k].alone => prompting.issued[k].request = prompting.issued[k].own

\* Two generators made from the base with different requests were prompted one
\* after the other, each with its own request
C36_Sequential ==
  /\ Len(prompting.issued) = 2
  /\ prompting.issued[1].alone /\ prompting.issued[2].alone
  /\ prompting.issued[1].gen # prompting.issued[2].gen
  /\ prompting.issued[1].gen > 1 /\ prompting.issued[2].gen > 1
  /\ prompting.issued[1].own # prompting.issued[2].own

\* The request has a PTC system fragment exactly if it has the code_execution tool
FragmentMatchesTool(request) ==
  (request.PTCSystemFragment # << >>) <=> (codeExecution \in Names(request.Tools))

\* C37: whatever builder calls made a generator, its request has a PTC system
\* fragment if and only if its tool list holds the code_execution tool.
C37_FragmentIffTool ==
  \A i \in 1..Len(made) : FragmentMatchesTool(made[i].request)

\* It is so for the generator SetTools returns when it is given tools of the
\* caller, none of them a code_execution tool made earlier
C37_Remainder ==
  \A i \in 1..Len(made) :
    (made[i].op = "SetTools" /\ codeExecution \notin Names(made[i].input)) =>
      FragmentMatchesTool(made[i].request)

\* RunWithToolsOnly prepared a request that has the code_execution tool and no
\* fragment
C37_ToolsOnly ==
  \E i \in 1..Len(made) :
    /\ made[i].op = "RunWithToolsOnly"
    /\ codeExecution \in Names(made[i].request.Tools)
    /\ made[i].request.PTCSystemFragment = << >>

\* SetToolConfig with a tool of the caller left the fragment and no code_execution tool
C37_ToolConfig ==
  \E i \in 1..Len(made) :
    /\ made[i].op = "SetToolConfig"
    /\ codeExecution \notin Names(made[i].request.Tools)
    /\ made[i].request.PTCSystemFragment # << >>

\* The code_execution tools the generators hold
CodeExecutionTools ==
  UNION {{t \in Elements(gens[b].Request.Tools) : t.Name = codeExecution /\ t.Runtime # 0} :
           b \in 1..Len(gens)}

\* The interpreter the executor of the tool runs scripts in has a binding for
\* every PTC tool the tool was made of
AllBound(t) == Elements(t.Docs) \subseteq DOMAIN sessions[t.Runtime].Bound

\* C38: after ResetRuntimeSession the interpreter in which the executor of a
\* generator's code_execution tool runs scripts has a binding for every PTC tool
\* adapted for the generator, and a script that calls one finds it.
C38_BoundAfterReset ==
  /\ \A t \in CodeExecutionTools : sessions[t.Runtime].JS > 1 => AllBound(t)
  /\ \A k \in 1..Len(ran) :
       (ran[k].started /\ ran[k].js > 1 /\ StatementOf(k).kind = "call") =>
         ran[k].end # NotDefined(StatementOf(k).name)

\* As long as the interpreter of the session is the first, every adapted PTC tool
\* is bound and every script that calls one finds it
C38_Remainder ==
  /\ \A t \in CodeExecutionTools : sessions[t.Runtime].JS = 1 => AllBound(t)
  /\ \A k \in 1..Len(ran) :
       (ran[k].started /\ ran[k].js = 1 /\ StatementOf(k).kind = "call") =>
         ran[k].end.kind = "value"

\* A script that calls add ran in the interpreter ResetRuntimeSession made and
\* ended with the ReferenceError of a name that is not defined
C38_NotDefined ==
  \E k \in 1..Len(ran) :
    /\ ran[k].started
    /\ ran[k].js = 2
    /\ ran[k].code = CodeCallOne
    /\ ran[k].end = NotDefined("add")

\* C39: the goroutine Stream started ends and closes the channel, whether the
\* consumer goes on receiving or not and whether the context is cancelled or not,
\* with the channel full or not.
C39_StreamCloses ==
  <>(spc = "closed" /\ closed)

\* The goroutine waits to send on the full channel: the deferred eof event
C39_Blocked ==
  /\ spc = "deferred"
  /\ Len(stream) = StreamCapacity
  /\ cancelled

\* Every function of the turn's calls has returned
AllReturned == pc = "dispatch" /\ \A k \in 1..Len(worker) : worker[k] = "done"

\* C40: in a turn whose calls all passed the pre-validation, the function of every
\* call is invoked once and no more, with parallelism <= 1 and with more, also
\* those of the calls that come after a call whose function returned an error.
C40_AllInvokedOnce ==
  /\ \A k \in 1..Len(hist.invocations) : hist.invocations[k] <= 1
  /\ AllReturned =>
       /\ Len(hist.invocations) = Len(callbacks)
       /\ \A k \in 1..Len(callbacks) : hist.invocations[k] = 1
       /\ \A k \in 1..Len(callbacks) : results[k].Index = k

\* Three calls dispatched one after the other: the function of the first returned
\* an error, those of the second and the third were invoked all the same
C40_Witness ==
  /\ AllReturned
  /\ parallelism <= 1
  /\ Len(callbacks) = 3
  /\ ~results[1].Error.nil
  /\ hist.invocations = <<1, 1, 1>>

\* The same with the goroutines of executeCallbacksParallel
C40_WitnessParallel ==
  /\ AllReturned
  /\ parallelism > 1
  /\ Len(callbacks) = 3
  /\ ~results[1].Error.nil
  /\ hist.invocations = <<1, 1, 1>>
====
